---- MODULE Spec2Model ----
(***************************************************************************)
(* A model of the EDU_AID analysis back end:                               *)
(*   - EducationAnalyzer (backend/services/analyzer.js): row normaliser,   *)
(*     empty-dataset check, weighted overall score, performance clusters;  *)
(*   - AIAnalyzer (services/ai_analyzer.js): aggregation of term scores,   *)
(*     the remote model call with its fallbacks, the rule-based course     *)
(*     recommendation synthesiser;                                         *)
(*   - POST /analyze (backend/routes/analysis.js) and the analysis cache.  *)
(*                                                                         *)
(* JavaScript values are tagged records (Undef, Null, Num, Str); strings   *)
(* that the code inspects character by character are sequences of          *)
(* one-character strings.  Numbers that the code divides are kept exact:   *)
(* a weighted score is a fraction [num, den], a one-decimal average is an  *)
(* integer number of tenths.                                               *)
(***************************************************************************)
EXTENDS Integers, Sequences, FiniteSets, TLC

VARIABLES
    eRows,      \* EducationAnalyzer: raw rows of the uploaded file
    eExt,       \* EducationAnalyzer: detected file extension
    eOut,       \* EducationAnalyzer: per raw row, what normalizeStudentData returned
    eData,      \* EducationAnalyzer: parsed student records (rawData)
    eClusters,  \* EducationAnalyzer: result of createPerformanceClusters
    eOutliers,  \* EducationAnalyzer: result of identifyOutliers
    ePc,        \* EducationAnalyzer: position in analyzeFile
    eError,     \* EducationAnalyzer: message of the error thrown, "" when none
    aModel,     \* AIAnalyzer: this.model is set (GEMINI_API_KEY configured)
    rAuth,      \* POST /analyze: the Authorization header (req.headers.authorization)
    rFile,      \* POST /analyze: the uploaded file (req.file)
    rPc,        \* POST /analyze: position of the request
    rData,      \* analyzeFile: studentData, the aggregated rows
    rCtx,       \* analyzeFile: totalStudents and totalSubjects
    rRemote,    \* analyzeWithAI: how the remote call ended
    rLate,      \* analyzeWithAI: what the loser of Promise.race did afterwards
    rAiResult,  \* analyzeWithAI: the value it returned, Null before
    rResponse,  \* POST /analyze: the response sent, Null before
    cache,      \* analysisCache: the entries, in insertion order
    tempFile,   \* the uploaded temporary file exists on disk
    sReqs,      \* concurrent POST /analyze requests: position and locals of each
    sIssued,    \* the session identifiers answered so far, each with its analysis
    sDeleted,   \* the answered identifiers for which DELETE /session was processed
    sLast,      \* the last response sent by a session route
    sUuid,      \* how many identifiers crypto.randomUUID has produced
    users,      \* auth routes: the in-memory user store, by email
    uReqs,      \* auth routes: the requests waiting at their await of bcrypt
    uLast,      \* auth routes: the last request answered, with its response
    uCount,     \* auth routes: how many requests were received
    gRows,      \* aggregateStudentData: the rows array its caller holds
    gRuns,      \* aggregateStudentData: what each call on gRows returned
    hist,       \* AIAssistant: conversationHistory, by user
    cReqs,      \* AIAssistant: the calls waiting at their await of the model
    cCalls,     \* AIAssistant: every call made, with its user and its outcome
    cDone,      \* AIAssistant: the messages answered, in the order they completed
    cCount      \* AIAssistant: how many calls were made

eduVars == <<eRows, eExt, eOut, eData, eClusters, eOutliers, ePc, eError>>

aiVars == <<aModel, rAuth, rFile, rPc, rData, rCtx, rRemote, rLate, rAiResult, rResponse, cache, tempFile>>

sessVars == <<sReqs, sIssued, sDeleted, sLast, sUuid>>

authVars == <<users, uReqs, uLast, uCount>>

aggVars == <<gRows, gRuns>>

chatVars == <<hist, cReqs, cCalls, cDone, cCount>>

extVars == <<authVars, aggVars, chatVars>>

vars == <<eduVars, aiVars, sessVars, extVars>>

(***************************************************************************)
(* Bounds of the model.                                                    *)
(***************************************************************************)
MaxStudents == 2

(***************************************************************************)
(* JavaScript values.                                                      *)
(***************************************************************************)
Undef == [t |-> "undefined"]
Null == [t |-> "null"]
Num(n) == [t |-> "number", v |-> n]
Str(s) == [t |-> "string", v |-> s]

IsNum(x) == x.t = "number"

\* JavaScript truthiness of a value (used by !x and x || y).
Truthy(x) ==
    CASE x.t = "undefined" -> FALSE
      [] x.t = "null" -> FALSE
      [] x.t = "number" -> x.v # 0
      [] x.t = "NaN" -> FALSE
      [] x.t = "string" -> x.v # <<>>
      [] x.t = "object" -> TRUE
      [] x.t = "array" -> TRUE

\* JavaScript x || y.
JsOr(x, y) == IF Truthy(x) THEN x ELSE y

(***************************************************************************)
(* Strings as sequences of characters.                                     *)
(***************************************************************************)
UpperChars ==
    <<"A", "B", "C", "D", "E", "F", "G", "H", "I", "J", "K", "L", "M", "N", "O", "P", "Q", "R", "S", "T", "U", "V", "W", "X", "Y", "Z">>

LowerChars ==
    <<"a", "b", "c", "d", "e", "f", "g", "h", "i", "j", "k", "l", "m", "n", "o", "p", "q", "r", "s", "t", "u", "v", "w", "x", "y", "z">>

\* One character of String.prototype.toLowerCase.
LowerChar(c) ==
    IF \E i \in 1..Len(UpperChars) : UpperChars[i] = c
    THEN LowerChars[CHOOSE i \in 1..Len(UpperChars) : UpperChars[i] = c]
    ELSE c

toLowerCase(s) == [i \in 1..Len(s) |-> LowerChar(s[i])]

\* The characters \s matches that occur in the model's keys.
IsSpace(c) == c \in {" ", "\t"}

RECURSIVE DropLeadingSpaces(_)
DropLeadingSpaces(s) ==
    IF s # <<>> /\ IsSpace(Head(s)) THEN DropLeadingSpaces(Tail(s)) ELSE s

RECURSIVE ReplaceSpaceRuns(_)
\* s.replace(/\s+/g, '_'): every maximal run of white space becomes one "_".
ReplaceSpaceRuns(s) ==
    IF s = <<>> THEN <<>>
    ELSE IF IsSpace(Head(s)) THEN <<"_">> \o ReplaceSpaceRuns(DropLeadingSpaces(Tail(s)))
    ELSE <<Head(s)>> \o ReplaceSpaceRuns(Tail(s))

\* const lowerKey = key.toLowerCase().replace(/\s+/g, '_');
LowerKey(key) == ReplaceSpaceRuns(toLowerCase(key))

DigitChars == <<"0", "1", "2", "3", "4", "5", "6", "7", "8", "9">>

IsDigit(c) == \E i \in 1..Len(DigitChars) : DigitChars[i] = c

DigitVal(c) == (CHOOSE i \in 1..Len(DigitChars) : DigitChars[i] = c) - 1

RECURSIVE StripNonNumeric(_)
\* s.replace(/[^\d.-]/g, ''): keep digits, "." and "-" only.
StripNonNumeric(s) ==
    IF s = <<>> THEN <<>>
    ELSE IF IsDigit(Head(s)) \/ Head(s) \in {".", "-"}
         THEN <<Head(s)>> \o StripNonNumeric(Tail(s))
         ELSE StripNonNumeric(Tail(s))

RECURSIVE DigitRun(_)
\* The maximal leading run of digits of s.
DigitRun(s) ==
    IF s # <<>> /\ IsDigit(Head(s)) THEN <<Head(s)>> \o DigitRun(Tail(s)) ELSE <<>>

RECURSIVE DigitsValue(_)
DigitsValue(d) ==
    IF d = <<>> THEN 0
    ELSE DigitsValue(SubSeq(d, 1, Len(d) - 1)) * 10 + DigitVal(d[Len(d)])

NaN == [t |-> "NaN"]

\* parseFloat of a string made of digits, "." and "-": the longest prefix of
\* the form -?digits(.digits)? is the number, NaN when that prefix holds no
\* digit.  A number with a non-zero fractional digit keeps its fraction digits
\* in the field frac (the arithmetic of the model is over whole numbers).
ParseFloat(s) ==
    LET neg == s # <<>> /\ Head(s) = "-"
        rest == IF neg THEN Tail(s) ELSE s
        ip == DigitRun(rest)
        after == SubSeq(rest, Len(ip) + 1, Len(rest))
        fp == IF after # <<>> /\ Head(after) = "." THEN DigitRun(Tail(after)) ELSE <<>>
        whole == IF neg THEN 0 - DigitsValue(ip) ELSE DigitsValue(ip)
    IN IF ip = <<>> /\ fp = <<>> THEN NaN
       ELSE IF \A i \in 1..Len(fp) : fp[i] = "0" THEN Num(whole)
       ELSE [t |-> "number", v |-> whole, neg |-> neg, frac |-> fp]

RECURSIVE NatToChars(_)
NatToChars(n) ==
    IF n < 10 THEN <<DigitChars[n + 1]>>
    ELSE NatToChars(n \div 10) \o <<DigitChars[(n % 10) + 1]>>

\* String(x) for the values a spreadsheet cell can hold.
JsString(x) ==
    CASE x.t = "string" -> x.v
      [] x.t = "number" -> IF x.v < 0 THEN <<"-">> \o NatToChars(0 - x.v) ELSE NatToChars(x.v)
      [] x.t = "null" -> <<"n", "u", "l", "l">>
      [] x.t = "NaN" -> <<"N", "a", "N">>

(***************************************************************************)
(* EducationAnalyzer.normalizeStudentData.  A raw row is the sequence of   *)
(* its (key, value) pairs in column order; keys of one row are distinct.   *)
(***************************************************************************)
fieldMappings ==
    [name |-> {
        <<"n", "a", "m", "e">>,
        <<"s", "t", "u", "d", "e", "n", "t", "_", "n", "a", "m", "e">>,
        <<"s", "t", "u", "d", "e", "n", "t", "n", "a", "m", "e">>,
        <<"f", "u", "l", "l", "_", "n", "a", "m", "e">>,
        <<"s", "t", "u", "d", "e", "n", "t">>},
     id |-> {
        <<"i", "d">>,
        <<"s", "t", "u", "d", "e", "n", "t", "_", "i", "d">>,
        <<"s", "t", "u", "d", "e", "n", "t", "i", "d">>,
        <<"r", "o", "l", "l", "_", "n", "o">>,
        <<"r", "o", "l", "l", "n", "o">>},
     grade |-> {
        <<"g", "r", "a", "d", "e">>,
        <<"s", "c", "o", "r", "e">>,
        <<"m", "a", "r", "k", "s">>,
        <<"t", "o", "t", "a", "l", "_", "m", "a", "r", "k", "s">>,
        <<"f", "i", "n", "a", "l", "_", "g", "r", "a", "d", "e">>,
        <<"o", "v", "e", "r", "a", "l", "l", "_", "g", "r", "a", "d", "e">>},
     attendance |-> {
        <<"a", "t", "t", "e", "n", "d", "a", "n", "c", "e">>,
        <<"a", "t", "t", "e", "n", "d", "a", "n", "c", "e", "_", "r", "a", "t", "e">>,
        <<"a", "t", "t", "e", "n", "d", "a", "n", "c", "e", "_", "p", "e", "r", "c", "e", "n", "t", "a", "g", "e">>},
     participation |-> {
        <<"p", "a", "r", "t", "i", "c", "i", "p", "a", "t", "i", "o", "n">>,
        <<"p", "a", "r", "t", "i", "c", "i", "p", "a", "t", "i", "o", "n", "_", "s", "c", "o", "r", "e">>,
        <<"c", "l", "a", "s", "s", "_", "p", "a", "r", "t", "i", "c", "i", "p", "a", "t", "i", "o", "n">>},
     assignment |-> {
        <<"a", "s", "s", "i", "g", "n", "m", "e", "n", "t">>,
        <<"a", "s", "s", "i", "g", "n", "m", "e", "n", "t", "_", "s", "c", "o", "r", "e">>,
        <<"a", "s", "s", "i", "g", "n", "m", "e", "n", "t", "s">>},
     exam |-> {
        <<"e", "x", "a", "m">>,
        <<"e", "x", "a", "m", "_", "s", "c", "o", "r", "e">>,
        <<"f", "i", "n", "a", "l", "_", "e", "x", "a", "m">>,
        <<"m", "i", "d", "t", "e", "r", "m">>},
     quiz |-> {
        <<"q", "u", "i", "z">>,
        <<"q", "u", "i", "z", "_", "s", "c", "o", "r", "e">>,
        <<"q", "u", "i", "z", "z", "e", "s">>},
     subject |-> {
        <<"s", "u", "b", "j", "e", "c", "t">>,
        <<"c", "o", "u", "r", "s", "e">>,
        <<"c", "l", "a", "s", "s">>,
        <<"s", "u", "b", "j", "e", "c", "t", "_", "n", "a", "m", "e">>}]

FieldNames ==
    {"name", "id", "grade", "attendance", "participation", "assignment", "exam",
     "quiz", "subject"}

NumericFields == {"grade", "attendance", "participation", "assignment", "exam", "quiz"}

EmptyNormalized == [f \in FieldNames |-> Undef]

RECURSIVE MapFields(_, _)
\* The Object.keys(row).forEach loop over the first n columns: a column whose
\* lowerKey is a synonym of a field assigns that field (a later column wins).
MapFields(row, n) ==
    IF n = 0 THEN EmptyNormalized
    ELSE LET prev == MapFields(row, n - 1)
             lowerKey == LowerKey(row[n].key)
         IN [f \in FieldNames |->
                IF lowerKey \in fieldMappings[f] THEN row[n].value ELSE prev[f]]

\* parseFloat(String(v).replace(/[^\d.-]/g, '')), NaN stored as null.
ConvertNumeric(v) ==
    LET numValue == ParseFloat(StripNonNumeric(JsString(v)))
    IN IF numValue = NaN THEN Null ELSE numValue

\* A variant without the identifier check.
normalizeStudentData_KeepAll(row) ==
    LET normalized == MapFields(row, Len(row))
    IN [f \in FieldNames |->
            IF f \in NumericFields /\ normalized[f] # Undef
            THEN ConvertNumeric(normalized[f]) ELSE normalized[f]]

\* The normalised record, or Null for a row without a student identifier.
normalizeStudentData(row) ==
    LET normalized == MapFields(row, Len(row))
    IN IF ~Truthy(normalized.name) /\ ~Truthy(normalized.id) THEN Null
       ELSE [f \in FieldNames |->
                IF f \in NumericFields /\ normalized[f] # Undef
                THEN ConvertNumeric(normalized[f]) ELSE normalized[f]]

(***************************************************************************)
(* EducationAnalyzer.calculateOverallScore and createPerformanceClusters.  *)
(***************************************************************************)
WeightKeys == <<"grade", "attendance", "participation", "assignment", "exam">>

\* The weights, in tenths: grade 0.4, attendance 0.2, participation 0.2,
\* assignment 0.1, exam 0.1.
weights ==
    [grade |-> 4, attendance |-> 2, participation |-> 2, assignment |-> 1, exam |-> 1]

\* student[key] !== null && student[key] !== undefined && !isNaN(student[key])
HasValue(student, key) == IsNum(student[key])

RECURSIVE WeightedSums(_, _)
\* <<totalScore, totalWeight>> (both in tenths) over the first n weight keys.
WeightedSums(student, n) ==
    IF n = 0 THEN <<0, 0>>
    ELSE LET prev == WeightedSums(student, n - 1)
             key == WeightKeys[n]
         IN IF HasValue(student, key)
            THEN <<prev[1] + student[key].v * weights[key], prev[2] + weights[key]>>
            ELSE prev

\* A variant that divides by the sum of all five weights.
calculateOverallScore_SkipNothing(student) ==
    LET sums == [k \in 1..Len(WeightKeys) |->
                    IF IsNum(student[WeightKeys[k]])
                    THEN student[WeightKeys[k]].v * weights[WeightKeys[k]] ELSE 0]
        num == sums[1] + sums[2] + sums[3] + sums[4] + sums[5]
    IN [num |-> num, den |-> 10]

\* The overall score as the exact fraction num/den (den > 0).
calculateOverallScore(student) ==
    LET s == WeightedSums(student, Len(WeightKeys))
    IN IF s[2] > 0 THEN [num |-> s[1], den |-> s[2]] ELSE [num |-> 0, den |-> 1]

\* score >= t for a fraction score and an integer t.
ScoreGE(score, t) == score.num >= t * score.den

\* const attendance = student.attendance || 100;
ThresholdAttendance(student) == JsOr(student.attendance, Num(100))

\* The if / else-if chain of createPerformanceClusters for one student.
BucketOf(student) ==
    LET score == calculateOverallScore(student)
        attendance == ThresholdAttendance(student).v
    IN IF ScoreGE(score, 85) /\ attendance >= 90 THEN "highPerformers"
       ELSE IF ScoreGE(score, 70) /\ attendance >= 75 THEN "averagePerformers"
       ELSE IF ScoreGE(score, 50) \/ attendance >= 60 THEN "needsSupport"
       ELSE "atRisk"

BucketNames == {"highPerformers", "averagePerformers", "needsSupport", "atRisk"}

EmptyClusters == [b \in BucketNames |-> <<>>]

\* { ...student, overallScore: score }
ClusterEntry(student) == [student |-> student, overallScore |-> calculateOverallScore(student)]

RECURSIVE ClustersUpTo(_, _)
ClustersUpTo(data, n) ==
    IF n = 0 THEN EmptyClusters
    ELSE LET prev == ClustersUpTo(data, n - 1)
             b == BucketOf(data[n])
         IN [prev EXCEPT ![b] = Append(prev[b], ClusterEntry(data[n]))]

\* A variant whose final else branch is missing.
createPerformanceClusters_DropAtRisk(data) ==
    [ClustersUpTo(data, Len(data)) EXCEPT !["atRisk"] = <<>>]

createPerformanceClusters(data) == ClustersUpTo(data, Len(data))

(***************************************************************************)
(* AIAnalyzer: the Recommendation Synthesizer (createComprehensiveAnalysis *)
(* and generateCourseRecommendations).  Aggregated data is the sequence of *)
(* students in insertion order, each with its (subject, average) entries   *)
(* in insertion order; an average "85.0" is the integer 850 (tenths).      *)
(***************************************************************************)
Mathematics == <<"M", "a", "t", "h", "e", "m", "a", "t", "i", "c", "s">>

Physics == <<"P", "h", "y", "s", "i", "c", "s">>

Chemistry == <<"C", "h", "e", "m", "i", "s", "t", "r", "y">>

Biology == <<"B", "i", "o", "l", "o", "g", "y">>

Economics == <<"E", "c", "o", "n", "o", "m", "i", "c", "s">>

Government == <<"G", "o", "v", "e", "r", "n", "m", "e", "n", "t">>

Literature == <<"L", "i", "t", "e", "r", "a", "t", "u", "r", "e">>

English == <<"E", "n", "g", "l", "i", "s", "h">>

\* The keys of subjectMap the rule table reads.
lc_mathematics == <<"m", "a", "t", "h", "e", "m", "a", "t", "i", "c", "s">>

lc_physics == <<"p", "h", "y", "s", "i", "c", "s">>

lc_chemistry == <<"c", "h", "e", "m", "i", "s", "t", "r", "y">>

lc_biology == <<"b", "i", "o", "l", "o", "g", "y">>

lc_economics == <<"e", "c", "o", "n", "o", "m", "i", "c", "s">>

lc_government == <<"g", "o", "v", "e", "r", "n", "m", "e", "n", "t">>

lc_literature == <<"l", "i", "t", "e", "r", "a", "t", "u", "r", "e">>

lc_english == <<"e", "n", "g", "l", "i", "s", "h">>

Art == <<"A", "r", "t">>

\* A fraction num/den compared with a whole number t given in units of 1/10.
FracGE(num, den, t) == num >= t * den

\* x.toFixed(1) of the non-negative fraction num/den of tenths, as tenths:
\* the nearest tenth, the larger one on a tie.
ToFixed1(num, den) == (2 * num + den) \div (2 * den)

RECURSIVE SumScores(_)
\* subjectScores.reduce((sum, [_, score]) => sum + parseFloat(score), 0)
SumScores(subjectScores) ==
    IF subjectScores = <<>> THEN 0
    ELSE subjectScores[1].score + SumScores(Tail(subjectScores))

RECURSIVE InsertByScore_Unstable(_, _)
\* A variant that puts e before the entries of equal score.
InsertByScore_Unstable(sorted, e) ==
    IF sorted = <<>> THEN <<e>>
    ELSE IF sorted[1].score > e.score
         THEN <<sorted[1]>> \o InsertByScore_Unstable(Tail(sorted), e)
    ELSE <<e>> \o sorted

RECURSIVE InsertByScore(_, _)
\* Insert e behind every entry whose score is not smaller (a stable sort,
\* descending).
InsertByScore(sorted, e) ==
    IF sorted = <<>> THEN <<e>>
    ELSE IF sorted[1].score >= e.score THEN <<sorted[1]>> \o InsertByScore(Tail(sorted), e)
    ELSE <<e>> \o sorted

RECURSIVE SortDescending(_)
\* .sort((a, b) => parseFloat(b[1]) - parseFloat(a[1]))
SortDescending(entries) ==
    IF entries = <<>> THEN <<>>
    ELSE InsertByScore(SortDescending(SubSeq(entries, 1, Len(entries) - 1)),
                       entries[Len(entries)])

\* .slice(0, n)
Slice(s, n) == SubSeq(s, 1, IF Len(s) < n THEN Len(s) ELSE n)

\* A variant whose threshold is 60.
Strengths_IncludeWeak(subjectScores) ==
    LET strong == SelectSeq(subjectScores, LAMBDA e : e.score >= 600)
        top == Slice(SortDescending(strong), 3)
    IN [i \in 1..Len(top) |-> top[i].subject]

\* The top 3 strengths: subjects >= 70, by descending score.
Strengths(subjectScores) ==
    LET strong == SelectSeq(subjectScores, LAMBDA e : e.score >= 700)
        top == Slice(SortDescending(strong), 3)
    IN [i \in 1..Len(top) |-> top[i].subject]

RECURSIVE SubjectMapValue(_, _)
\* subjectMap[key] after the forEach: the score of the last subject whose
\* lower-cased name is key, -1 for undefined (undefined >= n is false).
SubjectMapValue(subjectScores, key) ==
    IF subjectScores = <<>> THEN -1
    ELSE LET last == subjectScores[Len(subjectScores)]
         IN IF toLowerCase(last.subject) = key THEN last.score
            ELSE SubjectMapValue(SubSeq(subjectScores, 1, Len(subjectScores) - 1), key)

\* strengths.some(s => list.includes(s))
SomeIn(strengths, list) == \E i \in 1..Len(strengths) : strengths[i] \in list

\* An empty or one-element list, for the conditional pushes.
When(cond, course) == IF cond THEN <<course>> ELSE <<>>

\* The recommendations the rule table pushes, in rule-evaluation order.
RuleMatches(strengths, subjectScores) ==
    LET m(key) == SubjectMapValue(subjectScores, key)
        science == SomeIn(strengths, {Mathematics, Physics, Chemistry})
        arts == SomeIn(strengths, {Economics, Government, Literature, English})
        business == SomeIn(strengths, {Economics, Mathematics})
    IN When(science /\ m(lc_mathematics) >= 750 /\ m(lc_physics) >= 700, "Computer Engineering")
       \o When(science /\ m(lc_chemistry) >= 700 /\ m(lc_biology) >= 700, "Medicine and Surgery")
       \o When(science /\ m(lc_mathematics) >= 700, "Mathematics/Statistics")
       \o When(arts /\ m(lc_economics) >= 700, "Economics")
       \o When(arts /\ (m(lc_government) >= 700 \/ m(lc_literature) >= 700), "Law")
       \o When(arts /\ m(lc_english) >= 750, "Mass Communication")
       \o When(business, "Business Administration")

\* The block under "Ensure we have at least 3 recommendations".
FillUp(recommendations, avgNum, avgDen) ==
    IF Len(recommendations) < 3
    THEN LET withAccounting ==
                 recommendations \o When(FracGE(avgNum, avgDen, 700), "Accounting")
         IN withAccounting \o When(Len(withAccounting) < 3, "Public Administration")
    ELSE recommendations

\* A variant that keeps the last three recommendations.
generateCourseRecommendations_LastThree(strengths, subjectScores, avgNum, avgDen) ==
    LET all == FillUp(RuleMatches(strengths, subjectScores), avgNum, avgDen)
    IN SubSeq(all, IF Len(all) > 3 THEN Len(all) - 2 ELSE 1, Len(all))

\* generateCourseRecommendations(strengths, subjectScores, average), the
\* average being avgNum/avgDen tenths.  A recommendation is named by its
\* course; university, reason, jamb_cutoff and waec_required are constants of
\* the course.
generateCourseRecommendations(strengths, subjectScores, avgNum, avgDen) ==
    Slice(FillUp(RuleMatches(strengths, subjectScores), avgNum, avgDen), 3)

\* generateStudentInsight: which of the four sentences is returned.
generateStudentInsight(avgNum, avgDen) ==
    IF FracGE(avgNum, avgDen, 800) THEN "exceptional"
    ELSE IF FracGE(avgNum, avgDen, 700) THEN "solid"
    ELSE IF FracGE(avgNum, avgDen, 600) THEN "moderate"
    ELSE "promise"

\* A variant of the ladder whose comparisons are strict.
ClassGrade_Strict(num, den) ==
    IF num > 800 * den THEN "A"
    ELSE IF num > 700 * den THEN "B"
    ELSE IF num > 600 * den THEN "C"
    ELSE IF num > 500 * den THEN "D"
    ELSE "F"

\* The letter-grade ladder on an average num/den of tenths.
ClassGrade(num, den) ==
    IF FracGE(num, den, 800) THEN "A"
    ELSE IF FracGE(num, den, 700) THEN "B"
    ELSE IF FracGE(num, den, 600) THEN "C"
    ELSE IF FracGE(num, den, 500) THEN "D"
    ELSE "F"

RECURSIVE TotalScoreSum(_)
TotalScoreSum(data) ==
    IF data = <<>> THEN 0 ELSE SumScores(data[1].subjects) + TotalScoreSum(Tail(data))

RECURSIVE TotalScoreCount(_)
TotalScoreCount(data) ==
    IF data = <<>> THEN 0 ELSE Len(data[1].subjects) + TotalScoreCount(Tail(data))

\* One element of individualInsights.
StudentInsight(student) ==
    LET subjectScores == student.subjects
        avgNum == IF Len(subjectScores) > 0 THEN SumScores(subjectScores) ELSE 0
        avgDen == IF Len(subjectScores) > 0 THEN Len(subjectScores) ELSE 1
        strengths == Strengths(subjectScores)
        concerns == SelectSeq(subjectScores, LAMBDA e : e.score < 600)
    IN [studentName |-> student.name,
        averageScore |-> ToFixed1(avgNum, avgDen),
        strengths |-> strengths,
        insight |-> generateStudentInsight(avgNum, avgDen),
        concerns |-> [i \in 1..Len(concerns) |-> concerns[i].subject],
        recommendations |->
            generateCourseRecommendations(strengths, subjectScores, avgNum, avgDen)]

\* A variant that skips the students without any subject.
IndividualInsights_SkipEmpty(data) ==
    LET kept == SelectSeq(data, LAMBDA student : Len(student.subjects) > 0)
    IN [i \in 1..Len(kept) |-> StudentInsight(kept[i])]

\* Object.keys(data).map(studentName => {...}): one element per student.
IndividualInsights(data) == [i \in 1..Len(data) |-> StudentInsight(data[i])]

RECURSIVE AddSubjects(_, _)
\* subjects.add(subject) for every entry, in order: a Set keeps the order of
\* first insertion.
AddSubjects(subjects, subjectScores) ==
    IF subjectScores = <<>> THEN subjects
    ELSE AddSubjects(
             IF \E k \in 1..Len(subjects) : subjects[k] = subjectScores[1].subject
             THEN subjects
             ELSE Append(subjects, subjectScores[1].subject),
             Tail(subjectScores))

RECURSIVE AllSubjects(_, _)
\* The Set subjects after the first loop over Object.values(data).
AllSubjects(subjects, data) ==
    IF data = <<>> THEN subjects
    ELSE AllSubjects(AddSubjects(subjects, data[1].subjects), Tail(data))

\* The scores of one subject over all students: parseFloat of a subject the
\* student lacks is NaN and is filtered out.
ScoresOfSubject(data, subject) ==
    LET has == SelectSeq(data, LAMBDA student :
                   \E k \in 1..Len(student.subjects) :
                       student.subjects[k].subject = subject)
    IN [i \in 1..Len(has) |->
           (CHOOSE e \in {has[i].subjects[k] : k \in 1..Len(has[i].subjects)} :
                e.subject = subject).score]

RECURSIVE SumSeq(_)
\* scores.reduce((sum, score) => sum + score, 0)
SumSeq(scores) == IF scores = <<>> THEN 0 ELSE scores[1] + SumSeq(Tail(scores))

\* student.subjects[subject] of the patterns loop has no "|| {}": a student
\* without a subjects property makes it throw as soon as the class has a
\* subject.
PatternsThrow(data) ==
    /\ AllSubjects(<<>>, SelectSeq(data, LAMBDA student : "subjects" \in DOMAIN student)) # <<>>
    /\ \E i \in 1..Len(data) : "subjects" \notin DOMAIN data[i]

\* Object.entries(subjectAverages).filter(([_, avg]) => avg >= 75)
strongSubjects(data) ==
    SelectSeq(AllSubjects(<<>>, data), LAMBDA subject :
        LET scores == ScoresOfSubject(data, subject)
        IN Len(scores) > 0 /\ SumSeq(scores) >= 750 * Len(scores))

\* Object.entries(subjectAverages).filter(([_, avg]) => avg < 60)
weakSubjects(data) ==
    SelectSeq(AllSubjects(<<>>, data), LAMBDA subject :
        LET scores == ScoresOfSubject(data, subject)
        IN Len(scores) > 0 /\ SumSeq(scores) < 600 * Len(scores))

\* Math.round((individualInsights.filter(s => parseFloat(s.averageScore) >= 70)
\*     .length / studentCount) * 100): 0 / 0 is NaN for a class without
\* students.
ShareAtOrAbove70(individualInsights, studentCount) ==
    LET k == Len(SelectSeq(individualInsights, LAMBDA s : s.averageScore >= 700))
    IN IF studentCount = 0 THEN NaN
       ELSE Num((200 * k + studentCount) \div (2 * studentCount))

\* createComprehensiveAnalysis(data, context): context is not read.  The
\* result has no aiPowered property.  A text built from a template is the
\* record of the values the template interpolates; studentRecommendations
\* repeats individualInsights and is left out.
createComprehensiveAnalysis(data) ==
    LET count == TotalScoreCount(data)
        avgNum == IF count > 0 THEN TotalScoreSum(data) ELSE 700
        avgDen == IF count > 0 THEN count ELSE 1
        individualInsights == IndividualInsights(data)
        strong == strongSubjects(data)
        weak == weakSubjects(data)
    IN IF PatternsThrow(data) THEN [thrown |-> "TypeError"]
       ELSE
       [overallAssessment |->
            [classGrade |-> ClassGrade(avgNum, avgDen),
             averageScore |-> ToFixed1(avgNum, avgDen),
             totalStudents |-> Len(data)],
        individualInsights |-> individualInsights,
        patterns |->
            [strengths |-> IF Len(strong) > 0 THEN <<strong>>
                           ELSE <<"Overall steady performance maintained">>,
             weaknesses |-> IF Len(weak) > 0 THEN <<weak>>
                            ELSE <<"No major subject weaknesses identified">>,
             trends |-> <<ToFixed1(avgNum, avgDen), Len(data),
                          "Course recommendations tailored to individual strengths">>],
        recommendations |->
            [immediate |-> <<"Review individual student course recommendations",
                             "Discuss JAMB preparation strategies with students",
                             "Ensure students meet WAEC requirements for recommended courses">>,
             shortTerm |-> <<"Arrange university career guidance sessions",
                             "Connect students with alumni in recommended fields",
                             "Organize JAMB/UTME preparation programs">>,
             longTerm |-> <<"Track student university admissions success",
                            "Build partnerships with recommended universities",
                            "Develop subject-specific excellence programs">>],
        insights |->
            <<[students |-> Len(data), subjects |-> Len(AllSubjects(<<>>, data))],
              [average |-> ToFixed1(avgNum, avgDen), grade |-> ClassGrade(avgNum, avgDen)],
              [students |-> Len(data)],
              IF Len(strong) > 0 THEN [strongest |-> strong]
              ELSE [text |-> "No dominant strong subjects identified"],
              [share |-> ShareAtOrAbove70(individualInsights, Len(data))]>>,
        confidence |-> 8]

(***************************************************************************)
(* AIAnalyzer.aggregateStudentData.  A raw row is a function from the      *)
(* column headers the code reads to cell values (Undef for a column the    *)
(* row does not have).  Student names of the model are not integer-like    *)
(* and are no property name of Object.prototype, so object keys keep their *)
(* insertion order and data[name] is undefined until the code assigns it.  *)
(***************************************************************************)
termCols ==
    <<"SS1_1st", "SS1_2nd", "SS1_3rd", "SS2_1st", "SS2_2nd", "SS2_3rd",
      "SS3_1st", "SS3_2nd", "SS3_3rd", "SS1_Score", "SS2_Score", "SS3_Score">>

\* A variant that reads the Full Name column only.
RowName_FullNameOnly(row) == row["Full Name"]

\* row['Full Name'] || row.full_name || row.Student_ID || row.student_id
RowName(row) ==
    JsOr(row["Full Name"], JsOr(row["full_name"], JsOr(row["Student_ID"], row["student_id"])))

\* row.Subject || row.subject
RowSubject(row) == JsOr(row["Subject"], row["subject"])

\* parseFloat(cell) for a cell that is absent, a number, or a string without
\* leading white space or "+".
ParseCell(cell) ==
    CASE cell.t = "undefined" -> NaN
      [] cell.t = "number" -> cell
      [] cell.t = "string" -> ParseFloat(cell.v)
      [] OTHER -> NaN

\* A variant whose filter keeps negative numbers.
RowScores_KeepNegative(row) ==
    LET parsed == [i \in 1..Len(termCols) |-> ParseCell(row[termCols[i]])]
        valid == SelectSeq(parsed, LAMBDA n : n.t = "number")
    IN [i \in 1..Len(valid) |-> valid[i].v]

\* termCols.map(col => parseFloat(row[col])).filter(n => !isNaN(n) && n >= 0)
RowScores(row) ==
    LET parsed == [i \in 1..Len(termCols) |-> ParseCell(row[termCols[i]])]
        valid == SelectSeq(parsed, LAMBDA n : n.t = "number" /\ n.v >= 0)
    IN [i \in 1..Len(valid) |-> valid[i].v]


\* The position of key among the entries' field f, 0 when absent.
IndexOf(entries, f, key) ==
    IF \E i \in 1..Len(entries) : entries[i][f] = key
    THEN CHOOSE i \in 1..Len(entries) : entries[i][f] = key
    ELSE 0

\* A variant that keeps the value already stored for the subject.
SetSubject_KeepFirst(subjects, subject, score) ==
    IF IndexOf(subjects, "subject", subject) = 0
    THEN Append(subjects, [subject |-> subject, score |-> score])
    ELSE subjects

\* obj[key] = value on an object kept as its entries in insertion order.
SetSubject(subjects, subject, score) ==
    LET i == IndexOf(subjects, "subject", subject)
    IN IF i = 0 THEN Append(subjects, [subject |-> subject, score |-> score])
       ELSE [subjects EXCEPT ![i].score = score]

\* The body of rows.forEach for one row.
AggregateRow(data, row) ==
    LET name == RowName(row)
        subject == RowSubject(row)
    IN IF ~Truthy(name) \/ ~Truthy(subject) THEN data
       ELSE LET key == JsString(name)
                withStudent == IF IndexOf(data, "name", key) = 0
                               THEN Append(data, [name |-> key, subjects |-> <<>>])
                               ELSE data
                i == IndexOf(withStudent, "name", key)
                scores == RowScores(row)
            IN IF Len(scores) > 0
               THEN [withStudent EXCEPT ![i].subjects =
                        SetSubject(@, JsString(subject),
                                   ToFixed1(10 * SumSeq(scores), Len(scores)))]
               ELSE withStudent

RECURSIVE AggregateUpTo(_, _)
AggregateUpTo(rows, n) ==
    IF n = 0 THEN <<>> ELSE AggregateRow(AggregateUpTo(rows, n - 1), rows[n])

aggregateStudentData(rows) == AggregateUpTo(rows, Len(rows))

\* studentSet.size and subjectSet.size of analyzeFile.
CountStudents(rows) ==
    Cardinality({RowName(rows[i]) : i \in {j \in 1..Len(rows) : Truthy(RowName(rows[j]))}})

CountSubjects(rows) ==
    Cardinality({RowSubject(rows[i]) : i \in {j \in 1..Len(rows) : Truthy(RowSubject(rows[j]))}})

(***************************************************************************)
(* AIAnalyzer.analyzeWithAI and the parsing of the remote answer.  The     *)
(* answer text is a sequence of tokens: a markdown fence tagged json, a   *)
(* bare markdown fence, white space, prose, or the text of a JSON value.   *)
(***************************************************************************)
FenceJson == [k |-> "fence_json"]
Fence == [k |-> "fence"]
WhiteSpace == [k |-> "ws"]
Prose == [k |-> "prose"]
Json(value) == [k |-> "json", value |-> value]

JsArray(items) == [t |-> "array", items |-> items]

RECURSIVE TrimLeft(_)
TrimLeft(text) ==
    IF text # <<>> /\ text[1] = WhiteSpace THEN TrimLeft(Tail(text)) ELSE text

RECURSIVE TrimRight(_)
TrimRight(text) ==
    IF text # <<>> /\ text[Len(text)] = WhiteSpace
    THEN TrimRight(SubSeq(text, 1, Len(text) - 1)) ELSE text

\* text.trim()
Trim(text) == TrimRight(TrimLeft(text))

\* !text || text.trim().length === 0
IsBlankText(text) == Len(text) = 0 \/ Len(Trim(text)) = 0

\* The two fence-removing replace calls, then trim().
CleanText(text) ==
    Trim(SelectSeq(SelectSeq(text, LAMBDA tok : tok # FenceJson), LAMBDA tok : tok # Fence))

\* JSON.parse succeeds on the text of exactly one JSON value (white space
\* around it allowed); anything else is a SyntaxError.
JsonParses(clean) ==
    LET solid == SelectSeq(clean, LAMBDA tok : tok # WhiteSpace)
    IN Len(solid) = 1 /\ solid[1].k = "json"

JsonValue(clean) == SelectSeq(clean, LAMBDA tok : tok # WhiteSpace)[1].value

\* createStructuredResponse(text): a fixed assessment, no individual insight.
createStructuredResponse(text) ==
    [overallAssessment |-> [classGrade |-> "C", averageScore |-> 700, totalStudents |-> 0],
     individualInsights |-> <<>>,
     confidence |-> 6]

\* x || [] for an array or a missing property.
OrEmpty(x) == IF Truthy(x) THEN x.items ELSE <<>>

\* transformStudentRecommendations throws a TypeError on an element that is
\* null (calculateStudentAverage reads student.strengths).
TransformThrows(items) == \E i \in 1..Len(items) : items[i] = Null

\* transformStudentRecommendations(studentArray): every student's average is
\* the constant 75 of calculateStudentAverage, 70 for an empty array.
transformStudentRecommendations(items) ==
    [overallAssessment |->
        [classGrade |-> IF Len(items) > 0 THEN ClassGrade(750, 1) ELSE ClassGrade(700, 1),
         averageScore |-> IF Len(items) > 0 THEN 750 ELSE 700,
         totalStudents |-> Len(items)],
     individualInsights |->
        [i \in 1..Len(items) |->
            [studentName |-> items[i].student_id,
             averageScore |-> 750,
             strengths |-> OrEmpty(items[i].strengths),
             recommendations |-> OrEmpty(items[i].recommendations)]],
     confidence |-> 9]

\* A variant that reports the score as a percentage.
calculateConfidence_Percent(individualInsights, insights) ==
    10 * (2 + (IF Len(individualInsights) > 0 THEN 3 ELSE 0) + 2 + 2
            + (IF Len(insights) > 0 THEN 1 ELSE 0))

\* calculateConfidence on the validated response, in tenths.
calculateConfidence(individualInsights, insights) ==
    LET score == 2 + (IF Len(individualInsights) > 0 THEN 3 ELSE 0) + 2 + 2
                   + (IF Len(insights) > 0 THEN 1 ELSE 0)
    IN IF score < 10 THEN score ELSE 10

\* validateAndEnhanceResponse(response) for a parsed JSON object: a missing
\* property takes its default.
validateAndEnhanceResponse(response) ==
    LET individualInsights ==
            IF Truthy(response.individualInsights) THEN response.individualInsights.items
            ELSE <<>>
        insights ==
            IF Truthy(response.insights) THEN response.insights.items
            ELSE <<"Analysis completed successfully">>
    IN [overallAssessment |->
            IF Truthy(response.overallAssessment) THEN response.overallAssessment.value
            ELSE [classGrade |-> "C", averageScore |-> 700, totalStudents |-> 0],
        individualInsights |-> individualInsights,
        confidence |-> calculateConfidence(individualInsights, insights)]

\* parseAnalysisResponse(text): every exception of the try block ends in
\* createStructuredResponse(text).
parseAnalysisResponse(text) ==
    LET clean == CleanText(text)
    IN IF ~JsonParses(clean) THEN createStructuredResponse(text)
       ELSE LET parsed == JsonValue(clean)
            IN IF parsed = Null THEN createStructuredResponse(text)
               ELSE IF parsed.t = "array"
                    THEN IF TransformThrows(parsed.items) THEN createStructuredResponse(text)
                         ELSE transformStudentRecommendations(parsed.items)
                    ELSE validateAndEnhanceResponse(parsed)

\* A variant that parses an empty answer when the timer fires.
analyzeWithAI_TimerParses(model, remote, data) ==
    IF ~model THEN createComprehensiveAnalysis(data)
    ELSE IF remote.kind = "throws" THEN createComprehensiveAnalysis(data)
    ELSE IF remote.kind = "timeout" THEN parseAnalysisResponse(<<>>)
    ELSE IF IsBlankText(remote.text) THEN createComprehensiveAnalysis(data)
    ELSE parseAnalysisResponse(remote.text)

\* A variant without the empty-response check.
analyzeWithAI_NoEmptyCheck(model, remote, data) ==
    IF ~model THEN createComprehensiveAnalysis(data)
    ELSE IF remote.kind \in {"throws", "timeout"} THEN createComprehensiveAnalysis(data)
    ELSE parseAnalysisResponse(remote.text)

\* analyzeWithAI(data, context), given how the remote call ended: without a
\* model, on a rejection of Promise.race (the request threw, or the 30 s
\* timer fired first) and on an empty answer the result is
\* createComprehensiveAnalysis(data, context); otherwise the answer is parsed.
analyzeWithAI(model, remote, data) ==
    IF ~model THEN createComprehensiveAnalysis(data)
    ELSE IF remote.kind \in {"throws", "timeout"} THEN createComprehensiveAnalysis(data)
    ELSE IF IsBlankText(remote.text) THEN createComprehensiveAnalysis(data)
    ELSE parseAnalysisResponse(remote.text)

(***************************************************************************)
(* Inputs of the model: spreadsheet cells, raw rows, uploaded files.       *)
(***************************************************************************)
MaxRows == 2

Col(k, v) == [key |-> k, value |-> v]

Ann == Str(<<"A", "n", "n">>)

\* A first column: a name-like header in several spellings, or none.
NameCols ==
    {Col(<<"N", "a", "m", "e">>, Ann),
     Col(<<"N", "a", "m", "e">>, Str(<<>>)),
     Col(<<"F", "u", "l", "l", " ", " ", "N", "a", "m", "e">>, Str(<<" ">>)),
     Col(<<"N", "A", "M", "E", " ">>, Ann)}

\* An optional second column: an id-like header, or a second name-like one.
IdCols ==
    {<<>>,
     <<Col(<<"S", "t", "u", "d", "e", "n", "t", " ", "I", "D">>, Num(0))>>,
     <<Col(<<"s", "t", "u", "d", "e", "n", "t">>, Str(<<>>))>>,
     <<Col(<<"R", "o", "l", "l", " ", "N", "o">>, Str(<<"S", "1">>))>>}

\* Score columns.
GradeCols == <<Col(<<"G", "r", "a", "d", "e">>, Str(<<"8", "5", "%">>))>>

AttendanceCols ==
    <<Col(<<"A", "t", "t", "e", "n", "d", "a", "n", "c", "e">>, Str(<<"a", "b", "c">>)),
      Col(<<"S", "c", "o", "r", "e">>, Num(40))>>

RawRows ==
    {<<n>> \o i \o GradeCols : n \in NameCols, i \in IdCols}
        \cup {<<n>> \o AttendanceCols : n \in NameCols}

\* All sequences over S of length at most n.
SeqsUpTo(S, n) == UNION {[1..k -> S] : k \in 0..n}

Files == SeqsUpTo(RawRows, MaxRows)

Extensions == {".csv", ".xlsx", ".xls", ".xlsm", ".pdf"}

\* StudentRecords as normalizeStudentData produces them.
MkStudent(g, a, p, as, ex) ==
    [name |-> Ann, id |-> Undef, grade |-> g, attendance |-> a, participation |-> p,
     assignment |-> as, exam |-> ex, quiz |-> Undef, subject |-> Undef]

GradeVals == {Undef, Num(40), Num(50), Num(70), Num(85), Num(90)}

AttendanceVals == {Undef, Null, Num(0), Num(50), Num(60), Num(75), Num(90), Num(95)}

\* Two records whose exact score lies on a threshold (50 and 85) while the
\* double-precision quotient the code computes is 49.99999999999999 and
\* 84.99999999999999: exact fractions do not describe them, and they are left
\* out of the inputs.  On every other record of StudentRecords the exact score
\* and the double compare alike with 50, 70 and 85.
RoundingSensitive ==
    {MkStudent(Num(50), Num(50), Undef, Undef, Undef),
     MkStudent(Num(90), Num(75), Undef, Undef, Undef)}

StudentRecords ==
    ({MkStudent(g, a, Undef, Undef, Undef) : g \in GradeVals, a \in AttendanceVals}
        \ RoundingSensitive)
    \cup {MkStudent(Num(90), Num(95), Num(50), Undef, Undef),
          MkStudent(Num(80), Undef, Num(100), Num(90), Num(70)),
          MkStudent(Undef, Num(40), Undef, Undef, Num(45)),
          MkStudent(Num(100), Num(0), Num(100), Num(100), Num(100))}

(***************************************************************************)
(* EducationAnalyzer.analyzeFile, step by step.                            *)
(***************************************************************************)
\* jsonData.map(row => this.normalizeStudentData(row))
NormalizeAll(rows) == [i \in 1..Len(rows) |-> normalizeStudentData(rows[i])]

\* .filter(Boolean), and the test before data.push(normalizedRow) of parseCSV.
KeepRecords(out) == SelectSeq(out, LAMBDA r : r # Null)

\* parseFile: an extension that is neither CSV nor Excel throws.
ParseUnsupported ==
    /\ ePc = "start"
    /\ eExt \notin {".csv", ".xlsx", ".xls", ".xlsm"}
    /\ ePc' = "failed"
    /\ eError' = "Analysis failed: Unsupported file format"
    /\ UNCHANGED <<eRows, eExt, eOut, eData, eClusters>>
    /\ UNCHANGED <<eOutliers, aiVars, sessVars, extVars>>

\* parseExcel: the whole sheet in one synchronous call.
ParseExcel ==
    /\ ePc = "start"
    /\ eExt \in {".xlsx", ".xls", ".xlsm"}
    /\ eOut' = NormalizeAll(eRows)
    /\ eData' = KeepRecords(NormalizeAll(eRows))
    /\ ePc' = "parsed"
    /\ UNCHANGED <<eRows, eExt, eClusters, eError>>
    /\ UNCHANGED <<eOutliers, aiVars, sessVars, extVars>>

\* parseCSV: one 'data' event of the stream.
ParseCSVRow ==
    /\ ePc = "start"
    /\ eExt = ".csv"
    /\ Len(eOut) < Len(eRows)
    /\ LET normalizedRow == normalizeStudentData(eRows[Len(eOut) + 1])
       IN /\ eOut' = Append(eOut, normalizedRow)
          /\ eData' = IF normalizedRow # Null THEN Append(eData, normalizedRow) ELSE eData
    /\ UNCHANGED <<eRows, eExt, eClusters, ePc, eError>>
    /\ UNCHANGED <<eOutliers, aiVars, sessVars, extVars>>

\* parseCSV: the 'end' event resolves the promise.
ParseCSVEnd ==
    /\ ePc = "start"
    /\ eExt = ".csv"
    /\ Len(eOut) = Len(eRows)
    /\ ePc' = "parsed"
    /\ UNCHANGED <<eRows, eExt, eOut, eData, eClusters, eError>>
    /\ UNCHANGED <<eOutliers, aiVars, sessVars, extVars>>

\* analyzeFile after parseFile: performStatisticalAnalysis throws on an empty
\* dataset (rethrown as "Analysis failed: ..."); otherwise the remote calls are
\* each caught locally and the clusters are computed.
AnalyzeParsed ==
    /\ ePc = "parsed"
    /\ IF Len(eData) = 0
       THEN /\ ePc' = "failed"
            /\ eError' = "Analysis failed: No valid data to analyze"
            /\ UNCHANGED eClusters
       ELSE /\ ePc' = "done"
            /\ eClusters' = createPerformanceClusters(eData)
            /\ UNCHANGED eError
    /\ UNCHANGED <<eRows, eExt, eOut, eData>>
    /\ UNCHANGED <<eOutliers, aiVars, sessVars, extVars>>

\* A direct call of createPerformanceClusters(data).
Classify ==
    /\ ePc = "classify"
    /\ eClusters' = createPerformanceClusters(eData)
    /\ ePc' = "classified"
    /\ UNCHANGED <<eRows, eExt, eOut, eData, eError>>
    /\ UNCHANGED <<eOutliers, aiVars, sessVars, extVars>>

(***************************************************************************)
(* EducationAnalyzer.identifyOutliers.  Twice a quartile and four times a  *)
(* fence are integers when the values are, so the comparisons with the     *)
(* fences are made on values multiplied by four.                           *)
(***************************************************************************)
\* const numericFields = ['grade', 'attendance', 'participation', ...]
numericFields == <<"grade", "attendance", "participation", "assignment", "exam", "quiz">>

\* item.value !== null && item.value !== undefined && !isNaN(item.value)
IsValidValue(value) == value.t = "number"

\* data.map((student, index) => ({ value: student[field], index, student }))
\*     .filter(...)
ValidItems(data, field) ==
    LET items == [i \in 1..Len(data) |->
                     [value |-> data[i][field], index |-> i - 1, student |-> data[i]]]
    IN SelectSeq(items, LAMBDA item : IsValidValue(item.value))

RECURSIVE InsertAscending(_, _)
InsertAscending(sorted, n) ==
    IF sorted = <<>> THEN <<n>>
    ELSE IF sorted[1] <= n THEN <<sorted[1]>> \o InsertAscending(Tail(sorted), n)
    ELSE <<n>> \o sorted

RECURSIVE SortAscending(_)
SortAscending(nums) ==
    IF nums = <<>> THEN <<>>
    ELSE InsertAscending(SortAscending(Tail(nums)), nums[1])

\* Twice ss.quantile(nums, pNum / pDen) for 0 < pNum / pDen < 1, as the
\* simple-statistics library computes it on the sorted sample x with
\* idx = x.length * p: x[ceil(idx) - 1] when idx is not whole, the mean of
\* x[idx - 1] and x[idx] when it is whole and the length is even, and x[idx]
\* otherwise (indices from 0).
quantileTwice(nums, pNum, pDen) ==
    LET x == SortAscending(nums)
        idx == (Len(x) * pNum) \div pDen
    IN IF (Len(x) * pNum) % pDen # 0 THEN 2 * x[idx + 1]
       ELSE IF Len(x) % 2 = 0 THEN x[idx] + x[idx + 1]
       ELSE 2 * x[idx + 1]

\* Four times lowerBound = q1 - 1.5 * iqr.
lowerBound4(nums) ==
    LET q1 == quantileTwice(nums, 1, 4)
        q3 == quantileTwice(nums, 3, 4)
    IN 2 * q1 - 3 * (q3 - q1)

\* Four times upperBound = q3 + 1.5 * iqr.
upperBound4(nums) ==
    LET q1 == quantileTwice(nums, 1, 4)
        q3 == quantileTwice(nums, 3, 4)
    IN 2 * q3 + 3 * (q3 - q1)

\* A variant that accepts four valid values.
EnoughValues_AtLeastFour(values) == Len(values) >= 4

\* if (values.length > 4)
EnoughValues(values) == Len(values) > 4

\* item.student.name || item.student.id
OutlierName(student) == IF Truthy(student.name) THEN student.name ELSE student.id

\* outliers[field] of a field with enough values.
FieldOutliers(values) ==
    LET nums == [i \in 1..Len(values) |-> values[i].value.v]
        out == SelectSeq(values, LAMBDA item :
                   4 * item.value.v < lowerBound4(nums) \/ 4 * item.value.v > upperBound4(nums))
    IN [i \in 1..Len(out) |->
           [studentName |-> OutlierName(out[i].student),
            value |-> out[i].value,
            type |-> IF 4 * out[i].value.v < lowerBound4(nums) THEN "low" ELSE "high"]]

\* identifyOutliers(data, fields): an object with a property for each field
\* that has enough values.
identifyOutliers(data, fields) ==
    LET reported == {fields[k] : k \in {k \in 1..Len(fields) :
                                            EnoughValues(ValidItems(data, fields[k]))}}
    IN [field \in reported |-> FieldOutliers(ValidItems(data, field))]

\* The call of performStatisticalAnalysis: outliers:
\* this.identifyOutliers(data, numericFields).
IdentifyOutliers ==
    /\ ePc = "outliers"
    /\ eOutliers' = identifyOutliers(eData, numericFields)
    /\ ePc' = "outliersDone"
    /\ UNCHANGED <<eRows, eExt, eOut, eData, eClusters, eError>>
    /\ UNCHANGED <<aiVars, sessVars, extVars>>

\* The largest class of the outlier inputs.
MaxOutlierStudents == 5

\* Grades of the outlier inputs: absent, null, and numbers far apart.
OutlierGrades == {Undef, Null, Num(10), Num(50), Num(100)}

\* The student at position i with grade g: every student attended alike, and
\* the students at even positions are known by their id only.
OutlierStudent(i, g) ==
    [MkStudent(g, Num(90), Undef, Undef, Undef) EXCEPT
        !.name = IF i % 2 = 1 THEN Ann ELSE Undef,
        !.id = Num(i)]

OutlierData ==
    {[i \in 1..Len(grades) |-> OutlierStudent(i, grades[i])] :
        grades \in SeqsUpTo(OutlierGrades, MaxOutlierStudents)}

(***************************************************************************)
(* Inputs of the AIAnalyzer and of POST /analyze.                          *)
(***************************************************************************)
MaxFileRows == 2

MaxSubjects == 3

RowKeys ==
    {"Full Name", "full_name", "Student_ID", "student_id", "id", "Subject", "subject"}
        \cup {termCols[i] : i \in 1..Len(termCols)}

\* A row with a Full Name, a Student_ID, a Subject and three term cells.
MkRow(fullName, studentId, subject, first, second, legacy) ==
    [k \in RowKeys |->
        CASE k = "Full Name" -> fullName
          [] k = "Student_ID" -> studentId
          [] k = "Subject" -> subject
          [] k = "SS1_1st" -> first
          [] k = "SS1_2nd" -> second
          [] k = "SS3_Score" -> legacy
          [] OTHER -> Undef]

S1 == Str(<<"S", "1">>)

S2 == Str(<<"S", "2">>)

SheetRows ==
    {MkRow(S1, Undef, Str(Mathematics), Num(80), Num(90), Undef),
     MkRow(S1, Undef, Str(Physics), Num(75), Num(65), Undef),
     MkRow(S1, Undef, Str(Mathematics), Num(60), Undef, Undef),
     MkRow(Undef, S2, Str(Art), Num(40), Undef, Undef),
     MkRow(Undef, Undef, Str(Mathematics), Num(90), Undef, Undef),
     MkRow(S2, Undef, Str(English), Str(<<"a", "b", "c">>), Num(-5), Undef),
     MkRow(S2, Undef, Undef, Num(70), Undef, Undef),
     MkRow(S2, Undef, Str(Economics), Str(<<"7", "2">>), Undef, Num(75)),
     MkRow(S1, Undef, Str(Mathematics), Str(<<"a", "b", "c">>), Undef, Undef),
     MkRow(S2, Undef, Str(English), Str(<<"a", "b", "c">>), Num(-5), Num(0)),
     MkRow(Undef, S2, Str(Physics), Num(70), Num(71), Num(71))}

\* A row of student S1 whose identifier is in the column idKey and whose
\* subject is in the lower-case column subject.
KeyedRow(idKey, subject, first, second) ==
    [k \in RowKeys |->
        CASE k = idKey -> S1
          [] k = "subject" -> Str(subject)
          [] k = "SS1_1st" -> first
          [] k = "SS1_2nd" -> second
          [] OTHER -> Undef]

\* Mathematics 80 and 90, Physics 75 and 65, for S1 named in column idKey.
TwoSubjectRows(idKey) ==
    <<KeyedRow(idKey, Mathematics, Num(80), Num(90)),
      KeyedRow(idKey, Physics, Num(75), Num(65))>>

NoFile == [kind |-> "none"]

\* path.extname(file.originalname) of the uploads of the model.
Xlsx == <<".", "x", "l", "s", "x">>

UploadExtensions ==
    {Xlsx, <<".", "X", "L", "S", "X">>, <<".", "x", "l", "s">>, <<".", "c", "s", "v">>, <<".", "C", "s", "v">>, <<".", "x", "l", "s", "m">>, <<".", "p", "d", "f">>, <<>>}

\* A readable upload: its rows and the extension of its original name.
SheetNamed(rows, ext) == [kind |-> "sheet", rows |-> rows, ext |-> ext]

Sheet(rows) == SheetNamed(rows, Xlsx)

UnreadableFile == [kind |-> "unreadable", ext |-> Xlsx]

\* multer's fileFilter: the upload is kept when the lower-cased extension is
\* one of .xlsx, .xls, .csv; otherwise req.file stays undefined and nothing
\* is written to uploads/.
FileFilter(ext) == toLowerCase(ext) \in {Xlsx, <<".", "x", "l", "s">>, <<".", "c", "s", "v">>}

\* An error message is a sequence of parts: fixed text, or a quoted value.
Text(s) == [text |-> s]

Quoted(value) == [quoted |-> value]

\* req.file is set.
HasFile(file) == file.kind # "none" /\ FileFilter(file.ext)

Uploads ==
    {NoFile, UnreadableFile}
        \cup {Sheet(rows) : rows \in SeqsUpTo(SheetRows, MaxFileRows)}
        \cup {Sheet(TwoSubjectRows(idKey)) : idKey \in {"id", "Student_ID", "full_name"}}
        \cup {SheetNamed(TwoSubjectRows("Student_ID"), ext) : ext \in UploadExtensions}

\* Answers of the remote model.
AnswerStudent ==
    [student_id |-> <<"S", "1">>,
     strengths |-> JsArray(<<Mathematics>>),
     recommendations |-> JsArray(<<"Computer Engineering", "Law", "Accounting">>)]

AnswerStudentBare ==
    [student_id |-> <<"S", "2">>, strengths |-> Undef, recommendations |-> Undef]

AnswerObject ==
    [t |-> "object",
     overallAssessment |->
        [t |-> "object",
         value |-> [classGrade |-> "A", averageScore |-> 900, totalStudents |-> 1]],
     individualInsights |-> JsArray(<<[studentName |-> <<"S", "1">>]>>),
     insights |-> JsArray(<<"insight">>),
     confidence |-> Num(95)]

AnswerObjectEmpty ==
    [t |-> "object", overallAssessment |-> Undef, individualInsights |-> Undef,
     insights |-> JsArray(<<>>)]

AnswerTexts ==
    {<<>>,
     <<WhiteSpace>>,
     <<Prose>>,
     <<Fence, Fence>>,
     <<FenceJson, WhiteSpace, Prose, WhiteSpace, Fence>>,
     <<Prose, Json(JsArray(<<AnswerStudent>>))>>,
     <<Json(JsArray(<<AnswerStudent, AnswerStudentBare>>))>>,
     <<FenceJson, WhiteSpace, Json(JsArray(<<AnswerStudent>>)), WhiteSpace, Fence>>,
     <<Json(JsArray(<<>>))>>,
     <<Json(JsArray(<<AnswerStudent, Null>>))>>,
     <<Json(AnswerObject)>>,
     <<WhiteSpace, Json(AnswerObjectEmpty)>>,
     <<Json(Null)>>}

RemoteOutcomes ==
    {[kind |-> "throws", message |-> m] :
        m \in {"fetch failed", "API key not valid", "internal error"}}
    \cup {[kind |-> "timeout"]}
    \cup {[kind |-> "text", text |-> x] : x \in AnswerTexts}

\* Aggregated data given directly to the synthesizer: one student with up to
\* MaxSubjects distinct subjects, no student, or two students.
SubjectPool == {Mathematics, Physics, Chemistry, Biology, Economics, Government, English, Art}

ScorePool == {600, 700, 780}

\* The subjects of the pool in the order of a report sheet.
SubjectOrder == <<Mathematics, Physics, Chemistry, Biology, Economics, Government, English, Art>>

PoolIndex(subject) == CHOOSE k \in 1..Len(SubjectOrder) : SubjectOrder[k] = subject

\* Lists of distinct subjects: the lists shorter than MaxSubjects in every
\* order, the lists of MaxSubjects subjects in the order of the sheet.
SubjectLists ==
    {s \in SeqsUpTo([subject : SubjectPool, score : ScorePool], MaxSubjects) :
        /\ \A i, j \in 1..Len(s) : i # j => s[i].subject # s[j].subject
        /\ Len(s) = MaxSubjects =>
              \A i \in 1..Len(s) - 1 : PoolIndex(s[i].subject) < PoolIndex(s[i + 1].subject)}

Entry(subject, score) == [subject |-> subject, score |-> score]

PairProfiles ==
    {<<>>,
     <<Entry(Mathematics, 780), Entry(Physics, 720), Entry(English, 600)>>,
     <<Entry(Art, 450)>>,
     <<Entry(Art, 550)>>,
     <<Entry(Economics, 900), Entry(English, 900), Entry(Mathematics, 900),
       Entry(Physics, 900)>>}

\* Mathematics 78, Physics 72 and English 60, in every key order.
ThreeSubjectLists ==
    {s \in [1..3 -> {Entry(Mathematics, 780), Entry(Physics, 720), Entry(English, 600)}] :
        \A i, j \in 1..3 : i # j => s[i] # s[j]}

SynthData ==
    {<<>>}
    \cup {<<[name |-> S2.v, subjects |-> s]>> : s \in ThreeSubjectLists}
    \cup {<<[name |-> <<"S", "1">>, subjects |-> s]>> : s \in SubjectLists}
    \cup {<<[name |-> <<"S", "1">>, subjects |-> a], [name |-> <<"S", "2">>, subjects |-> b]>> :
            a \in PairProfiles, b \in PairProfiles}

(***************************************************************************)
(* The auth middleware and the Authorization header of POST /analyze.  A   *)
(* header is the sequence of its words, the parts split(' ') gives; a      *)
(* token is a record of its payload and of the secret that signed it.      *)
(***************************************************************************)
\* process.env.JWT_SECRET || 'default_secret'
JwtSecret == "default_secret"

\* jwt.sign(payload, secret, { expiresIn: '24h' })
jwtSign(payload, secret) == [payload |-> payload, secret |-> secret]

\* jwt.verify(token, secret) does not throw.
jwtVerifies(token, secret) == "secret" \in DOMAIN token /\ token.secret = secret

\* req.headers.authorization?.split(' ')[1]
TokenOf(authorization) ==
    IF authorization = Undef THEN Undef
    ELSE IF Len(authorization.words) >= 2 THEN authorization.words[2]
    ELSE Undef

\* auth(req, res, next): "next" when the request goes on to the route, and
\* the 401 response otherwise.  server.js imports the middleware and mounts
\* the analysis router without it (app.use('/api/analysis', analysisRoutes)),
\* and router.post('/analyze', upload.single('file'), handler) does not name
\* it either: no action of POST /analyze applies it.
auth(authorization) ==
    LET token == TokenOf(authorization)
    IN IF token = Undef
       THEN [status |-> 401, success |-> FALSE,
             error |-> <<Text("Access denied. No token provided.")>>]
       ELSE IF jwtVerifies(token, JwtSecret) THEN "next"
       ELSE [status |-> 401, success |-> FALSE, error |-> <<Text("Invalid token")>>]

\* An Authorization header.
Header(words) == [t |-> "header", words |-> words]

\* The headers of the requests: none, a scheme without a token, a forged
\* token and a token signed by the server.
AuthHeaders ==
    {Undef,
     Header(<<"Bearer">>),
     Header(<<"Bearer", jwtSign("teacher", "forged")>>),
     Header(<<"Bearer", jwtSign("teacher", JwtSecret)>>)}

\* The uploads of the requests that carry a header.
GateUploads ==
    {NoFile, UnreadableFile}
        \cup {Sheet(rows) : rows \in SeqsUpTo(SheetRows, 1)}
        \cup {Sheet(TwoSubjectRows("Student_ID"))}

(***************************************************************************)
(* POST /analyze with AIAnalyzer.analyzeFile, one request.                 *)
(***************************************************************************)
\* const aiPowered = analysis.analysisResults?.aiPowered !== false;
AiPowered(analysisResults) ==
    ~("aiPowered" \in DOMAIN analysisResults /\ analysisResults.aiPowered = FALSE)

\* The 200 response of the route.
SuccessResponse(sessionId, ctx, analysisResults) ==
    [status |-> 200,
     success |-> TRUE,
     sessionId |-> sessionId,
     totalStudents |-> ctx.totalStudents,
     totalSubjects |-> ctx.totalSubjects,
     analysisResults |-> analysisResults,
     overallAssessment |-> analysisResults.overallAssessment,
     individualInsights |-> analysisResults.individualInsights,
     confidence |-> analysisResults.confidence,
     aiPowered |-> AiPowered(analysisResults),
     analysisType |-> IF AiPowered(analysisResults) THEN "AI-Powered (Gemini 2.5)"
                      ELSE "Rule-Based (Fallback)"]

\* The route after analyzeFile returned: cache the analysis under a fresh
\* session identifier, remove the temporary file, answer.
Respond(ctx, analysisResults) ==
    LET sessionId == Len(cache) + 1
        analysis == [totalStudents |-> ctx.totalStudents,
                     totalSubjects |-> ctx.totalSubjects,
                     analysisResults |-> analysisResults]
    IN /\ cache' = Append(cache, [sessionId |-> sessionId, data |-> analysis])
       /\ tempFile' = FALSE
       /\ rResponse' = SuccessResponse(sessionId, ctx, analysisResults)
       /\ rAiResult' = analysisResults
       /\ rPc' = "responded"

\* if (!req.file) return res.status(400)
PostAnalyzeNoFile ==
    /\ rPc = "received"
    /\ ~HasFile(rFile)
    /\ rResponse' =
          [status |-> 400, success |-> FALSE,
           error |-> <<Text("No file uploaded. Please upload an Excel (.xlsx, .xls) or CSV file.")>>]
    /\ rPc' = "responded"
    /\ UNCHANGED <<aModel, rFile, rData, rCtx, rRemote, rAiResult, cache, tempFile>>
    /\ UNCHANGED <<rAuth, rLate, eduVars, sessVars, extVars>>

\* A variant whose catch block answers without removing the temporary file.
PostAnalyzeReadFails_KeepsFile ==
    /\ rPc = "received"
    /\ HasFile(rFile)
    /\ rFile.kind = "unreadable"
    /\ rResponse' = [status |-> 500, success |-> FALSE, error |-> <<Text("Analysis failed: ")>>]
    /\ rPc' = "responded"
    /\ UNCHANGED <<aModel, rFile, rData, rCtx, rRemote, rAiResult, cache, tempFile>>
    /\ UNCHANGED <<rAuth, rLate, eduVars, sessVars, extVars>>

\* XLSX.readFile throws: analyzeFile rethrows, the route removes the
\* temporary file and answers 500.
PostAnalyzeReadFails ==
    /\ rPc = "received"
    /\ HasFile(rFile)
    /\ rFile.kind = "unreadable"
    /\ rResponse' = [status |-> 500, success |-> FALSE, error |-> <<Text("Analysis failed: ")>>]
    /\ tempFile' = FALSE
    /\ rPc' = "responded"
    /\ UNCHANGED <<aModel, rFile, rData, rCtx, rRemote, rAiResult, cache>>
    /\ UNCHANGED <<rAuth, rLate, eduVars, sessVars, extVars>>

Context(rows) == [totalStudents |-> CountStudents(rows), totalSubjects |-> CountSubjects(rows)]

\* The whole request when no model is configured: analyzeWithAI returns the
\* synthesizer's result without any remote call.
PostAnalyzeWithoutModel ==
    /\ rPc = "received"
    /\ HasFile(rFile)
    /\ rFile.kind = "sheet"
    /\ ~aModel
    /\ rData' = aggregateStudentData(rFile.rows)
    /\ rCtx' = Context(rFile.rows)
    /\ rRemote' = [kind |-> "unconfigured"]
    /\ Respond(Context(rFile.rows),
               analyzeWithAI(aModel, [kind |-> "unconfigured"],
                             aggregateStudentData(rFile.rows)))
    /\ UNCHANGED <<aModel, rFile>>
    /\ UNCHANGED <<rAuth, rLate, eduVars, sessVars, extVars>>

\* The request up to the await of Promise.race([aiRequest, timeout]).
PostAnalyzeCallRemote ==
    /\ rPc = "received"
    /\ HasFile(rFile)
    /\ rFile.kind = "sheet"
    /\ aModel
    /\ rData' = aggregateStudentData(rFile.rows)
    /\ rCtx' = Context(rFile.rows)
    /\ rPc' = "awaitingAI"
    /\ UNCHANGED <<aModel, rFile, rRemote, rAiResult, rResponse, cache, tempFile>>
    /\ UNCHANGED <<rAuth, rLate, eduVars, sessVars, extVars>>

\* The race settles (the request answered or threw, or the timer fired) and
\* the request runs to its response.
RemoteSettles ==
    /\ rPc = "awaitingAI"
    /\ \E remote \in RemoteOutcomes :
          /\ rRemote' = remote
          /\ Respond(rCtx, analyzeWithAI(aModel, remote, rData))
    /\ UNCHANGED <<aModel, rFile, rData, rCtx>>
    /\ UNCHANGED <<rAuth, rLate, eduVars, sessVars, extVars>>

\* What the loser of the race can still do once the race has settled: the
\* timer fires after the request settled, or the request answers or is
\* rejected after the timer fired.
LateOutcomes(remote) ==
    IF remote.kind = "timeout"
    THEN {[kind |-> "throws", message |-> "fetch failed"],
          [kind |-> "text", text |-> <<Json(JsArray(<<AnswerStudent>>))>>],
          [kind |-> "text", text |-> <<Prose>>]}
    ELSE {[kind |-> "timeout"]}

\* The promise that lost Promise.race([aiRequest, timeout]) settles after
\* analyzeWithAI returned.  Promise.race subscribed to both promises, so a
\* late rejection has a handler, and the race, settled already, ignores the
\* late settlement: no code of the request runs.
LateSettles ==
    /\ rPc = "responded"
    /\ aModel
    /\ rRemote.kind \in {"throws", "timeout", "text"}
    /\ rLate.kind = "pending"
    /\ \E late \in LateOutcomes(rRemote) : rLate' = late
    /\ UNCHANGED <<aModel, rFile, rPc, rData, rCtx, rRemote, rAiResult, rResponse, cache, tempFile>>
    /\ UNCHANGED <<rAuth, eduVars, sessVars, extVars>>

\* A direct call of createComprehensiveAnalysis(data, context).
Synthesize ==
    /\ rPc = "synthesize"
    /\ rAiResult' = createComprehensiveAnalysis(rData)
    /\ rPc' = "synthesized"
    /\ UNCHANGED <<aModel, rFile, rData, rCtx, rRemote, rResponse, cache, tempFile>>
    /\ UNCHANGED <<rAuth, rLate, eduVars, sessVars, extVars>>

(***************************************************************************)
(* The auth routes POST /register and POST /login on the in-memory user    *)
(* store.  A handler runs to its await of bcrypt, other requests may run,  *)
(* and it resumes to its response.  A hash is a record of the password it  *)
(* was made from: bcrypt.compare(p, h) holds exactly for the password h    *)
(* was made from.  createdAt is left out.                                  *)
(***************************************************************************)
MaxAuthRequests == 3

\* await bcrypt.hash(password, 10)
bcryptHash(password) == [bcrypt |-> password]

\* A variant that accepts every password.
bcryptCompare_Always(password, hash) == TRUE

\* await bcrypt.compare(password, hash)
bcryptCompare(password, hash) == hash.bcrypt = password

\* A response of the auth routes.
AuthError(status, message) == [status |-> status, success |-> FALSE, error |-> message]

\* What a request answered leaves in uLast: its route, its body, what
\* users.get gave it (undefined when it made no lookup or found no user) and
\* its response.
Answered(route, body, read, response) ==
    [route |-> route, body |-> body, read |-> read, response |-> response]

\* The emails, passwords and names of the request bodies: a property may be
\* missing or empty.
Emails == {Str(<<"a", "@", "x">>), Str(<<"b", "@", "x">>), Undef}

Passwords == {Str(<<"p", "1">>), Str(<<"p", "2">>), Str(<<>>)}

Names == {Str(<<"T">>), Undef}

RegisterBodies == [email : Emails, password : Passwords, name : Names]

LoginBodies == [email : Emails, password : Passwords]

\* users.has(email)
UsersHas(email) == email \in DOMAIN users

\* users.set(email, user)
UsersSet(email, user) ==
    [e \in DOMAIN users \cup {email} |-> IF e = email THEN user ELSE users[e]]

\* POST /register up to its response or its await: 400 for a missing
\* property or a stored email.
RegisterStart(body) ==
    /\ uCount < MaxAuthRequests
    /\ uCount' = uCount + 1
    /\ IF ~Truthy(body.email) \/ ~Truthy(body.password) \/ ~Truthy(body.name)
       THEN /\ uLast' = Answered("register", body, Undef,
                            AuthError(400, "Email, password, and name are required"))
            /\ UNCHANGED uReqs
       ELSE IF UsersHas(body.email)
       THEN /\ uLast' = Answered("register", body, Undef, AuthError(400, "User already exists"))
            /\ UNCHANGED uReqs
       ELSE /\ uReqs' = Append(uReqs, [route |-> "register", body |-> body])
            /\ UNCHANGED uLast
    /\ UNCHANGED users
    /\ UNCHANGED <<eduVars, aiVars, sessVars, aggVars, chatVars>>

\* The sequence s without its element at position i.
RemoveAt(s, i) == SubSeq(s, 1, i - 1) \o SubSeq(s, i + 1, Len(s))

\* POST /register after bcrypt.hash: the user is stored and the answer is
\* 200.
RegisterFinish(i) ==
    /\ uReqs[i].route = "register"
    /\ LET body == uReqs[i].body
       IN /\ users' = UsersSet(body.email,
                         [email |-> body.email, name |-> body.name,
                          password |-> bcryptHash(body.password)])
          /\ uLast' = Answered("register", body, Undef,
                          [status |-> 200, success |-> TRUE,
                           message |-> "User registered successfully",
                           user |-> [email |-> body.email, name |-> body.name]])
    /\ uReqs' = RemoveAt(uReqs, i)
    /\ UNCHANGED uCount
    /\ UNCHANGED <<eduVars, aiVars, sessVars, aggVars, chatVars>>

\* POST /login up to its response or its await: 400 for a missing property,
\* 401 for an email that is not stored.
LoginStart(body) ==
    /\ uCount < MaxAuthRequests
    /\ uCount' = uCount + 1
    /\ IF ~Truthy(body.email) \/ ~Truthy(body.password)
       THEN /\ uLast' = Answered("login", body, Undef,
                            AuthError(400, "Email and password are required"))
            /\ UNCHANGED uReqs
       ELSE IF ~UsersHas(body.email)
       THEN /\ uLast' = Answered("login", body, Undef, AuthError(401, "Invalid credentials"))
            /\ UNCHANGED uReqs
       ELSE /\ uReqs' = Append(uReqs, [route |-> "login", body |-> body,
                                       user |-> users[body.email]])
            /\ UNCHANGED uLast
    /\ UNCHANGED users
    /\ UNCHANGED <<eduVars, aiVars, sessVars, aggVars, chatVars>>

\* POST /login after bcrypt.compare: 401 for a password that does not match
\* the user read before the await, and 200 with a signed token otherwise.
LoginFinish(i) ==
    /\ uReqs[i].route = "login"
    /\ LET body == uReqs[i].body
           user == uReqs[i].user
       IN uLast' =
            IF ~bcryptCompare(body.password, user.password)
            THEN Answered("login", body, user, AuthError(401, "Invalid credentials"))
            ELSE Answered("login", body, user,
                     [status |-> 200, success |-> TRUE, message |-> "Login successful",
                      token |-> jwtSign([email |-> user.email, name |-> user.name], JwtSecret),
                      user |-> [email |-> user.email, name |-> user.name]])
    /\ uReqs' = RemoveAt(uReqs, i)
    /\ UNCHANGED <<users, uCount>>
    /\ UNCHANGED <<eduVars, aiVars, sessVars, aggVars, chatVars>>

AuthIdle ==
    /\ users = <<>>
    /\ uReqs = <<>>
    /\ uLast = Null
    /\ uCount = 0

(***************************************************************************)
(* AIAssistant.processMessage and the conversation history.  A call runs   *)
(* to its await of model.generateContent, other calls may run, and it      *)
(* resumes with the answer or with the rejection.  The message of a call   *)
(* is its number, the answer of the model a record of the message; the     *)
(* timestamp of an exchange is left out.                                   *)
(***************************************************************************)
\* The userId arguments: omitted, or the identifier of a user.
OtherUser == Str(<<"u", "1">>)

DefaultUser == Str(<<"d", "e", "f", "a", "u", "l", "t">>)

\* userId = 'default': the default applies to an omitted argument.
UserKey(userId) == IF userId = Undef THEN DefaultUser ELSE userId

MaxCalls == 13

\* How many times a run may leave the plain course of one user's answered
\* calls one after another: a call of the other user, a call started while
\* another waits for the model, and a failed call each count once.
MaxDetours == 2

Count(S) == Cardinality(S)

Detours ==
    Count({k \in 1..Len(cCalls) : cCalls[k].userId # DefaultUser})
        + Count({k \in 1..Len(cCalls) : cCalls[k].overlaps})
        + Count({k \in 1..Len(cCalls) : cCalls[k].outcome = "failed"})

\* response.text() for the message.
Reply(message) == [re |-> message]

\* history.splice(0, history.length - 10) on a history longer than 10.
KeepLast(history) ==
    IF Len(history) > 10 THEN SubSeq(history, Len(history) - 9, Len(history)) ELSE history

\* A variant that adds every exchange to the history of the default user.
updateConversationHistory_Shared(history, userId, message, response) ==
    LET had == IF DefaultUser \in DOMAIN history THEN history[DefaultUser] ELSE <<>>
        pushed == Append(had, [message |-> message, response |-> response])
    IN [u \in DOMAIN history \cup {DefaultUser} |->
           IF u = DefaultUser THEN KeepLast(pushed) ELSE history[u]]

\* updateConversationHistory(userId, message, response) on the Map
\* conversationHistory.
updateConversationHistory(history, userId, message, response) ==
    LET had == IF userId \in DOMAIN history THEN history[userId] ELSE <<>>
        pushed == Append(had, [message |-> message, response |-> response])
    IN [u \in DOMAIN history \cup {userId} |->
           IF u = userId THEN KeepLast(pushed) ELSE history[u]]

\* processMessage(message, context, userId) up to the await of
\* generateContent.
ProcessMessageStart(userId) ==
    /\ cCount < MaxCalls
    /\ Detours + (IF userId # Undef THEN 1 ELSE 0) + (IF cReqs # <<>> THEN 1 ELSE 0)
           <= MaxDetours
    /\ cCount' = cCount + 1
    /\ cReqs' = Append(cReqs, [message |-> cCount + 1, userId |-> UserKey(userId)])
    /\ cCalls' = Append(cCalls, [message |-> cCount + 1, userId |-> UserKey(userId),
                                 outcome |-> "pending", overlaps |-> cReqs # <<>>])
    /\ UNCHANGED <<hist, cDone>>
    /\ UNCHANGED <<eduVars, aiVars, sessVars, authVars, aggVars>>

\* The model answered: the exchange is stored and the call returns.
ProcessMessageAnswered(i) ==
    LET call == cReqs[i]
    IN /\ hist' = updateConversationHistory(hist, call.userId, call.message,
                                            Reply(call.message))
       /\ cCalls' = [cCalls EXCEPT ![call.message].outcome = "answered"]
       /\ cDone' = Append(cDone, call.message)
       /\ cReqs' = RemoveAt(cReqs, i)
       /\ UNCHANGED cCount
       /\ UNCHANGED <<eduVars, aiVars, sessVars, authVars, aggVars>>

\* generateContent rejected (or response.text() threw): the call throws
\* "AI Assistant failed: ..." before it reaches the history.
ProcessMessageFails(i) ==
    LET call == cReqs[i]
    IN /\ Detours < MaxDetours
       /\ cCalls' = [cCalls EXCEPT ![call.message].outcome = "failed"]
       /\ cReqs' = RemoveAt(cReqs, i)
       /\ UNCHANGED <<hist, cDone, cCount>>
       /\ UNCHANGED <<eduVars, aiVars, sessVars, authVars, aggVars>>

ChatIdle ==
    /\ hist = <<>>
    /\ cReqs = <<>>
    /\ cCalls = <<>>
    /\ cDone = <<>>
    /\ cCount = 0

AggIdle ==
    /\ gRows = <<>>
    /\ gRuns = <<>>

ExtIdle == AuthIdle /\ AggIdle /\ ChatIdle

(***************************************************************************)
(* Repeated calls of aggregateStudentData on one rows array.               *)
(***************************************************************************)
MaxRuns == 2

\* A variant that consumes the array it reads.
RowsAfter_Consumed(rows) == <<>>

\* The rows array after rows.forEach(row => {...}): the callback reads
\* properties of row and assigns only to the local data, so the array and its
\* rows are what they were.
RowsAfter(rows) == rows

\* const studentData = this.aggregateStudentData(rows), once more.
AggregateAgain ==
    /\ Len(gRuns) < MaxRuns
    /\ gRuns' = Append(gRuns, aggregateStudentData(gRows))
    /\ gRows' = RowsAfter(gRows)
    /\ UNCHANGED <<eduVars, aiVars, sessVars, authVars, chatVars>>

\* The variables of the component a specification does not run.
SessIdle ==
    /\ sReqs = <<>>
    /\ sIssued = {}
    /\ sDeleted = {}
    /\ sLast = Null
    /\ sUuid = 0

EduIdle ==
    /\ eRows = <<>>
    /\ eExt = ""
    /\ eOut = <<>>
    /\ eData = <<>>
    /\ eClusters = EmptyClusters
    /\ eOutliers = <<>>
    /\ ePc = "idle"
    /\ eError = ""

AiIdle ==
    /\ aModel = FALSE
    /\ rAuth = Undef
    /\ rFile = NoFile
    /\ rPc = "idle"
    /\ rData = <<>>
    /\ rCtx = [totalStudents |-> 0, totalSubjects |-> 0]
    /\ rRemote = [kind |-> "pending"]
    /\ rLate = [kind |-> "pending"]
    /\ rAiResult = Null
    /\ rResponse = Null
    /\ cache = <<>>
    /\ tempFile = FALSE

AiInit ==
    /\ aModel \in BOOLEAN
    /\ rAuth = Undef
    /\ rFile \in Uploads
    /\ rPc = "received"
    /\ rData = <<>>
    /\ rCtx = [totalStudents |-> 0, totalSubjects |-> 0]
    /\ rRemote = [kind |-> "pending"]
    /\ rLate = [kind |-> "pending"]
    /\ rAiResult = Null
    /\ rResponse = Null
    /\ cache = <<>>
    /\ tempFile = HasFile(rFile)
    /\ EduIdle
    /\ SessIdle
    /\ ExtIdle

AiNext ==
    \/ PostAnalyzeNoFile
    \/ PostAnalyzeReadFails
    \/ PostAnalyzeWithoutModel
    \/ PostAnalyzeCallRemote
    \/ RemoteSettles

SynthInit ==
    /\ aModel = FALSE
    /\ rAuth = Undef
    /\ rFile = NoFile
    /\ rPc = "synthesize"
    /\ rData \in SynthData
    /\ rCtx = [totalStudents |-> 0, totalSubjects |-> 0]
    /\ rRemote = [kind |-> "pending"]
    /\ rLate = [kind |-> "pending"]
    /\ rAiResult = Null
    /\ rResponse = Null
    /\ cache = <<>>
    /\ tempFile = FALSE
    /\ EduIdle
    /\ SessIdle
    /\ ExtIdle

SynthNext == Synthesize

SpecAI == AiInit /\ [][AiNext]_vars

\* Calls of processMessage on an assistant without any history.
ChatInit ==
    /\ ChatIdle
    /\ AuthIdle
    /\ AggIdle
    /\ EduIdle
    /\ AiIdle
    /\ SessIdle

ChatNext ==
    \/ \E userId \in {Undef, OtherUser} : ProcessMessageStart(userId)
    \/ \E i \in 1..Len(cReqs) : ProcessMessageAnswered(i)
    \/ \E i \in 1..Len(cReqs) : ProcessMessageFails(i)

SpecChat == ChatInit /\ [][ChatNext]_vars

\* The row sets of the readable uploads.
AggInit ==
    /\ gRows \in {u.rows : u \in {f \in Uploads : f.kind = "sheet"}}
    /\ gRuns = <<>>
    /\ AuthIdle
    /\ ChatIdle
    /\ EduIdle
    /\ AiIdle
    /\ SessIdle

AggNext == AggregateAgain

SpecAggregate == AggInit /\ [][AggNext]_vars

\* Register and login requests on an empty user store.
AuthInit ==
    /\ AuthIdle
    /\ AggIdle
    /\ ChatIdle
    /\ EduIdle
    /\ AiIdle
    /\ SessIdle

AuthNext ==
    \/ \E body \in RegisterBodies : RegisterStart(body)
    \/ \E i \in 1..Len(uReqs) : RegisterFinish(i)
    \/ \E body \in LoginBodies : LoginStart(body)
    \/ \E i \in 1..Len(uReqs) : LoginFinish(i)

SpecAuth == AuthInit /\ [][AuthNext]_vars

\* One POST /analyze request with any Authorization header.
GateInit ==
    /\ aModel \in BOOLEAN
    /\ rAuth \in AuthHeaders
    /\ rFile \in GateUploads
    /\ rPc = "received"
    /\ rData = <<>>
    /\ rCtx = [totalStudents |-> 0, totalSubjects |-> 0]
    /\ rRemote = [kind |-> "pending"]
    /\ rLate = [kind |-> "pending"]
    /\ rAiResult = Null
    /\ rResponse = Null
    /\ cache = <<>>
    /\ tempFile = HasFile(rFile)
    /\ EduIdle
    /\ SessIdle
    /\ ExtIdle

SpecGate == GateInit /\ [][AiNext]_vars

\* One POST /analyze request followed up to the late settlement of the race.
RaceInit ==
    /\ aModel \in BOOLEAN
    /\ rAuth = Undef
    /\ rFile \in GateUploads
    /\ rPc = "received"
    /\ rData = <<>>
    /\ rCtx = [totalStudents |-> 0, totalSubjects |-> 0]
    /\ rRemote = [kind |-> "pending"]
    /\ rLate = [kind |-> "pending"]
    /\ rAiResult = Null
    /\ rResponse = Null
    /\ cache = <<>>
    /\ tempFile = HasFile(rFile)
    /\ EduIdle
    /\ SessIdle
    /\ ExtIdle

RaceNext == AiNext \/ LateSettles

SpecRace == RaceInit /\ [][RaceNext]_vars

SpecSynth == SynthInit /\ [][SynthNext]_vars

EduInit ==
    /\ eRows \in Files
    /\ eExt \in Extensions
    /\ eOut = <<>>
    /\ eData = <<>>
    /\ eClusters = EmptyClusters
    /\ eOutliers = <<>>
    /\ ePc = "start"
    /\ eError = ""
    /\ AiIdle
    /\ SessIdle
    /\ ExtIdle

EduNext == ParseUnsupported \/ ParseExcel \/ ParseCSVRow \/ ParseCSVEnd \/ AnalyzeParsed

ClusterInit ==
    /\ eRows = <<>>
    /\ eExt = ""
    /\ eOut = <<>>
    /\ eData \in SeqsUpTo(StudentRecords, MaxStudents)
    /\ eClusters = EmptyClusters
    /\ eOutliers = <<>>
    /\ ePc = "classify"
    /\ eError = ""
    /\ AiIdle
    /\ SessIdle
    /\ ExtIdle

ClusterNext == Classify

SpecEdu == EduInit /\ [][EduNext]_vars

SpecCluster == ClusterInit /\ [][ClusterNext]_vars

OutlierInit ==
    /\ eRows = <<>>
    /\ eExt = ""
    /\ eOut = <<>>
    /\ eData \in OutlierData
    /\ eClusters = EmptyClusters
    /\ eOutliers = <<>>
    /\ ePc = "outliers"
    /\ eError = ""
    /\ AiIdle
    /\ SessIdle
    /\ ExtIdle

OutlierNext == IdentifyOutliers

SpecOutliers == OutlierInit /\ [][OutlierNext]_vars

(***************************************************************************)
(* The analysis cache shared by the analysis and chat routes, with several *)
(* POST /analyze requests in flight.  A request runs to its await of       *)
(* analyzer.analyzeFile, other requests may run, and it resumes to its     *)
(* response.  The other session routes look the cache up synchronously.    *)
(***************************************************************************)
MaxRequests == 2

\* Map.has, Map.get, Map.set and Map.delete on the entries kept in insertion
\* order.
CacheHas(entries, sessionId) ==
    \E i \in 1..Len(entries) : entries[i].sessionId = sessionId

CacheGet(entries, sessionId) ==
    entries[CHOOSE i \in 1..Len(entries) : entries[i].sessionId = sessionId]

CacheSet(entries, sessionId, data) ==
    IF CacheHas(entries, sessionId)
    THEN [i \in 1..Len(entries) |->
            IF entries[i].sessionId = sessionId
            THEN [sessionId |-> sessionId, data |-> data] ELSE entries[i]]
    ELSE Append(entries, [sessionId |-> sessionId, data |-> data])

CacheDelete(entries, sessionId) ==
    SelectSeq(entries, LAMBDA e : e.sessionId # sessionId)

\* A variant that returns the same identifier on every call.
randomUUID_Repeating(produced) == 1

\* crypto.randomUUID(): an identifier no earlier call returned.  Identifiers
\* are numbered in the order they are produced.
randomUUID(produced) == produced + 1

\* The sheets uploaded in this part of the model.
SessionUploads ==
    {<<MkRow(Undef, S2, Str(Art), Num(40), Undef, Undef)>>,
     TwoSubjectRows("Student_ID")}

\* How the remote call of a request ends.
SessionOutcomes ==
    IF aModel
    THEN {[kind |-> "timeout"],
          [kind |-> "text", text |-> <<Json(JsArray(<<AnswerStudent>>))>>]}
    ELSE {[kind |-> "unconfigured"]}

\* The session identifiers requests name: those the uploads can be given.
SessionIds == 1..MaxRequests

\* The analysisData a client posts to /store-analysis; Undef when absent.
StoredPayloads == {Undef, [t |-> "object", note |-> "client data"]}

IdleRequest == [pc |-> "idle"]

\* POST /analyze up to the await: the rows are read and aggregated.
UploadStart(r) ==
    /\ sReqs[r].pc = "idle"
    /\ \E rows \in SessionUploads :
          sReqs' = [sReqs EXCEPT ![r] =
                      [pc |-> "awaiting", rows |-> rows,
                       data |-> aggregateStudentData(rows), ctx |-> Context(rows)]]
    /\ UNCHANGED <<sIssued, sDeleted, sLast, sUuid>>
    /\ UNCHANGED <<eduVars, aiVars, extVars>>

\* POST /analyze of a file XLSX.readFile cannot read: analyzeFile throws, the
\* route answers 500 and nothing is cached.
UploadFails(r) ==
    /\ sReqs[r].pc = "idle"
    /\ sReqs' = [sReqs EXCEPT ![r] =
                   [pc |-> "failed",
                    response |-> [status |-> 500, success |-> FALSE,
                                  error |-> <<Text("Analysis failed: ")>>]]]
    /\ sLast' = [route |-> "analyze", status |-> 500]
    /\ UNCHANGED <<sIssued, sDeleted, sUuid>>
    /\ UNCHANGED <<eduVars, aiVars, extVars>>

\* POST /analyze after the await: session identifier, cache.set, response.
UploadFinish(r) ==
    /\ sReqs[r].pc = "awaiting"
    /\ \E remote \in SessionOutcomes :
          LET req == sReqs[r]
              result == analyzeWithAI(aModel, remote, req.data)
              analysis == [totalStudents |-> req.ctx.totalStudents,
                           totalSubjects |-> req.ctx.totalSubjects,
                           analysisResults |-> result]
              sessionId == randomUUID(sUuid)
              response == SuccessResponse(sessionId, req.ctx, result)
          IN /\ cache' = CacheSet(cache, sessionId, analysis)
             /\ sUuid' = sUuid + 1
             /\ sReqs' = [sReqs EXCEPT ![r] =
                            [pc |-> "done", rows |-> req.rows, analysis |-> analysis,
                             response |-> response]]
             /\ sIssued' = sIssued \cup {[sessionId |-> sessionId, analysis |-> analysis]}
             /\ sLast' = [route |-> "analyze", sessionId |-> sessionId, status |-> 200]
    /\ UNCHANGED sDeleted
    /\ UNCHANGED <<aModel, rAuth, rFile, rPc, rData, rCtx, rRemote, rLate, rAiResult, rResponse, tempFile>>
    /\ UNCHANGED <<eduVars, extVars>>

\* What a route reads for the session: sessionData.data || sessionData.
SessionData(sessionId) == CacheGet(cache, sessionId).data

\* GET /download-pdf/:sessionId: 404 without an entry, else the PDF of the
\* cached analysis.
DownloadPdf(sessionId) ==
    /\ sLast' = IF ~CacheHas(cache, sessionId)
                THEN [route |-> "download-pdf", sessionId |-> sessionId, status |-> 404,
                      found |-> FALSE]
                ELSE [route |-> "download-pdf", sessionId |-> sessionId, status |-> 200,
                      found |-> TRUE, data |-> SessionData(sessionId)]
    /\ UNCHANGED <<sReqs, sIssued, sDeleted, sUuid>>
    /\ UNCHANGED <<eduVars, aiVars, extVars>>

\* POST /chat/send with a sessionId: the analysis context is the cached data
\* when there is an entry, null otherwise; the answer is 200, or 500 when the
\* chat model fails.
ChatSend(sessionId) ==
    /\ \E status \in {200, 500} :
          sLast' = IF CacheHas(cache, sessionId)
                   THEN [route |-> "chat", sessionId |-> sessionId, status |-> status,
                         found |-> TRUE, data |-> SessionData(sessionId)]
                   ELSE [route |-> "chat", sessionId |-> sessionId, status |-> status,
                         found |-> FALSE]
    /\ UNCHANGED <<sReqs, sIssued, sDeleted, sUuid>>
    /\ UNCHANGED <<eduVars, aiVars, extVars>>

\* POST /chat/store-analysis: 400 without analysisData, else cache.set.
StoreAnalysis(sessionId, analysisData) ==
    /\ IF ~Truthy(analysisData)
       THEN /\ sLast' = [route |-> "store-analysis", sessionId |-> sessionId, status |-> 400]
            /\ UNCHANGED cache
       ELSE /\ cache' = CacheSet(cache, sessionId, analysisData)
            /\ sLast' = [route |-> "store-analysis", sessionId |-> sessionId, status |-> 200]
    /\ UNCHANGED <<sReqs, sIssued, sDeleted, sUuid>>
    /\ UNCHANGED <<aModel, rAuth, rFile, rPc, rData, rCtx, rRemote, rLate, rAiResult, rResponse, tempFile>>
    /\ UNCHANGED <<eduVars, extVars>>

\* DELETE /chat/session/:sessionId: delete and 200 with an entry, else 404.
DeleteSession(sessionId) ==
    /\ IF CacheHas(cache, sessionId)
       THEN /\ cache' = CacheDelete(cache, sessionId)
            /\ sLast' = [route |-> "delete", sessionId |-> sessionId, status |-> 200]
       ELSE /\ sLast' = [route |-> "delete", sessionId |-> sessionId, status |-> 404]
            /\ UNCHANGED cache
    /\ sDeleted' = IF \E e \in sIssued : e.sessionId = sessionId
                   THEN sDeleted \cup {sessionId} ELSE sDeleted
    /\ UNCHANGED <<sReqs, sIssued, sUuid>>
    /\ UNCHANGED <<aModel, rAuth, rFile, rPc, rData, rCtx, rRemote, rLate, rAiResult, rResponse, tempFile>>
    /\ UNCHANGED <<eduVars, extVars>>

SessInit ==
    /\ sReqs = [r \in 1..MaxRequests |-> IdleRequest]
    /\ rAuth = Undef
    /\ ExtIdle
    /\ sIssued = {}
    /\ sDeleted = {}
    /\ sLast = Null
    /\ sUuid = 0
    /\ aModel \in BOOLEAN
    /\ rFile = NoFile
    /\ rPc = "idle"
    /\ rData = <<>>
    /\ rCtx = [totalStudents |-> 0, totalSubjects |-> 0]
    /\ rRemote = [kind |-> "pending"]
    /\ rLate = [kind |-> "pending"]
    /\ rAiResult = Null
    /\ rResponse = Null
    /\ cache = <<>>
    /\ tempFile = FALSE
    /\ EduIdle

UploadsNext ==
    \E r \in 1..MaxRequests : UploadStart(r) \/ UploadFails(r) \/ UploadFinish(r)

SessNext ==
    \/ UploadsNext
    \/ \E sessionId \in SessionIds :
          \/ DownloadPdf(sessionId)
          \/ ChatSend(sessionId)
          \/ DeleteSession(sessionId)
          \/ \E analysisData \in StoredPayloads : StoreAnalysis(sessionId, analysisData)

SpecUploads == SessInit /\ [][UploadsNext]_vars

SpecSession == SessInit /\ [][SessNext]_vars

(***************************************************************************)
(* Properties of the Cluster Classifier (SpecCluster).                     *)
(***************************************************************************)
\* The buckets a student record occurs in.
BucketsHolding(student) ==
    {b \in BucketNames : \E j \in 1..Len(eClusters[b]) : eClusters[b][j].student = student}

ClusterSizeSum ==
    Len(eClusters["highPerformers"]) + Len(eClusters["averagePerformers"])
        + Len(eClusters["needsSupport"]) + Len(eClusters["atRisk"])

\* C5: createPerformanceClusters places every student of the input in exactly
\* one of the four buckets: no student is in two buckets, the bucket sizes sum
\* to the input length, every entry is an input student, and an empty input
\* gives four empty buckets.
C5_ClusterPartition ==
    ePc = "classified" =>
        /\ ClusterSizeSum = Len(eData)
        /\ \A i \in 1..Len(eData) : Cardinality(BucketsHolding(eData[i])) = 1
        /\ \A b \in BucketNames : \A j \in 1..Len(eClusters[b]) :
              \E i \in 1..Len(eData) : eData[i] = eClusters[b][j].student
        /\ (eData = <<>> => eClusters = EmptyClusters)

C5_Witness ==
    /\ ePc = "classified"
    /\ Len(eData) = 2
    /\ Len(eClusters["atRisk"]) = 1
    /\ Len(eClusters["highPerformers"]) = 1

\* The student's own attendance, 100 when the student has none.
OwnAttendance(student) ==
    IF student.attendance.t = "number" THEN student.attendance.v ELSE 100

\* The bucket the ordered rule table gives for a score and an attendance.
RuleBucket(score, attendance) ==
    IF ScoreGE(score, 85) /\ attendance >= 90 THEN "highPerformers"
    ELSE IF ScoreGE(score, 70) /\ attendance >= 75 THEN "averagePerformers"
    ELSE IF ScoreGE(score, 50) \/ attendance >= 60 THEN "needsSupport"
    ELSE "atRisk"

\* C6: every student is in the bucket of the first matching rule (score >= 85
\* and attendance >= 90; score >= 70 and attendance >= 75; score >= 50 or
\* attendance >= 60; else atRisk), so atRisk holds exactly the students with
\* score < 50 and attendance < 60.
C6_FirstMatchingRule ==
    ePc = "classified" =>
        /\ \A b \in BucketNames : \A j \in 1..Len(eClusters[b]) :
              b = RuleBucket(eClusters[b][j].overallScore,
                             OwnAttendance(eClusters[b][j].student))
        /\ \A i \in 1..Len(eData) :
              ("atRisk" \in BucketsHolding(eData[i]))
                  <=> (~ScoreGE(calculateOverallScore(eData[i]), 50)
                       /\ OwnAttendance(eData[i]) < 60)

\* The weighted score over the present fields only, stated field by field.
PresentWeight(student, key) == IF student[key].t = "number" THEN weights[key] ELSE 0

PresentScore(student, key) ==
    IF student[key].t = "number" THEN student[key].v * weights[key] ELSE 0

ExpectedScoreNum(student) ==
    PresentScore(student, "grade") + PresentScore(student, "attendance")
        + PresentScore(student, "participation") + PresentScore(student, "assignment")
        + PresentScore(student, "exam")

ExpectedScoreDen(student) ==
    PresentWeight(student, "grade") + PresentWeight(student, "attendance")
        + PresentWeight(student, "participation") + PresentWeight(student, "assignment")
        + PresentWeight(student, "exam")

\* C7: the attendance used for thresholding is the student's own attendance
\* whenever the student has one (0 included) and 100 only when it is missing;
\* the weighted overallScore leaves missing fields out of numerator and
\* denominator.
C7_ThresholdAttendance ==
    ePc = "classified" =>
        \A b \in BucketNames : \A j \in 1..Len(eClusters[b]) :
            LET e == eClusters[b][j]
            IN /\ ThresholdAttendance(e.student).v = OwnAttendance(e.student)
               /\ e.overallScore.num * ExpectedScoreDen(e.student)
                      = ExpectedScoreNum(e.student) * e.overallScore.den

\* The StudentRecord {grade: 40, attendance: 50} of Scenario C.
ScenarioC == MkStudent(Num(40), Num(50), Undef, Undef, Undef)

\* C8 as stated: for {grade: 40, attendance: 50} the overallScore is 40 and
\* the student is placed in atRisk.
C8_Original ==
    (ePc = "classified" /\ eData = <<ScenarioC>>) =>
        /\ Len(eClusters["atRisk"]) = 1
        /\ eClusters["atRisk"][1].overallScore.num
               = 40 * eClusters["atRisk"][1].overallScore.den

\* C8 amended: for {grade: 40, attendance: 50} the overallScore is
\* (0.4*40 + 0.2*50) / 0.6 = 130/3 (43.33...) and the student is the single
\* entry of atRisk, the other buckets being empty.
C8_ScenarioC ==
    (ePc = "classified" /\ eData = <<ScenarioC>>) =>
        /\ eClusters = [EmptyClusters EXCEPT !["atRisk"] =
                            <<[student |-> ScenarioC,
                               overallScore |-> eClusters["atRisk"][1].overallScore]>>]
        /\ eClusters["atRisk"][1].overallScore.num * 3
               = 130 * eClusters["atRisk"][1].overallScore.den

C8_Witness == ePc = "classified" /\ eData = <<ScenarioC>>

(***************************************************************************)
(* Properties of the Row Normalizer (SpecEdu).                             *)
(***************************************************************************)
\* A column whose header is a synonym of name or id.
IsIdentifierColumn(col) ==
    LowerKey(col.key) \in (fieldMappings.name \cup fieldMappings.id)

\* A value that is not empty: a string of at least one character, or a number.
NonEmptyValue(x) == (x.t = "string" /\ Len(x.v) > 0) \/ x.t = "number"

\* No name-like and no id-like column of the row holds a non-empty value.
LacksIdentifier(row) ==
    \A k \in 1..Len(row) : IsIdentifierColumn(row[k]) => ~NonEmptyValue(row[k].value)

\* C10: normalizeStudentData returns null for every raw row in which neither a
\* name-like nor an id-like column holds a non-empty value; every record it
\* returns, and so every record parseCSV / parseExcel emit, has a non-empty
\* name or id.
C10_IdentifierRequired ==
    /\ \A i \in 1..Len(eOut) :
          /\ LacksIdentifier(eRows[i]) => eOut[i] = Null
          /\ eOut[i] # Null => NonEmptyValue(eOut[i].name) \/ NonEmptyValue(eOut[i].id)
    /\ \A i \in 1..Len(eData) : NonEmptyValue(eData[i].name) \/ NonEmptyValue(eData[i].id)
    /\ ePc \in {"parsed", "done", "failed"} /\ eError # "Analysis failed: Unsupported file format"
          => eData = KeepRecords(eOut) /\ Len(eOut) = Len(eRows)

C10_Witness ==
    /\ ePc = "parsed"
    /\ Len(eOut) = 2
    /\ LacksIdentifier(eRows[1]) /\ eOut[1] = Null
    /\ eOut[2] # Null
    /\ Len(eData) = 1


(***************************************************************************)
(* Properties of POST /analyze and of the synthesizer.                     *)
(***************************************************************************)
\* The answer text is empty or made of white space only.
BlankAnswer(text) == \A i \in 1..Len(text) : text[i] = WhiteSpace

\* The remote call gave nothing to parse: no model, a rejected request, the
\* timer, or a blank text.
RemoteGaveNothing(remote) ==
    \/ remote.kind \in {"unconfigured", "throws", "timeout"}
    \/ remote.kind = "text" /\ BlankAnswer(remote.text)

\* The request analysed a sheet and answered.
SheetAnswered == rPc = "responded" /\ rFile.kind = "sheet" /\ HasFile(rFile)

\* Some student of the aggregated data has a subject average.
HasScoredStudent(data) == \E i \in 1..Len(data) : Len(data[i].subjects) > 0

\* C1: when the model is not configured, the remote request throws, the
\* timer fires, or the returned text is empty or white space only,
\* analyzeWithAI raises nothing: the request completes with status 200 and its
\* result is exactly what createComprehensiveAnalysis gives for the same
\* aggregated data.
C1_FallbackOnRemoteFailure ==
    (SheetAnswered /\ RemoteGaveNothing(rRemote)) =>
        /\ rData = aggregateStudentData(rFile.rows)
        /\ rAiResult = createComprehensiveAnalysis(rData)
        /\ rResponse.status = 200
        /\ rResponse.analysisResults = rAiResult

\* C1 witness: a request with a configured model whose answer was white space
\* only, for a sheet with a scored student, has responded.
C1_Witness ==
    /\ SheetAnswered
    /\ aModel
    /\ rRemote.kind = "text"
    /\ rRemote.text = <<WhiteSpace>>
    /\ HasScoredStudent(rData)
    /\ Len(rAiResult.individualInsights) > 0

\* C2: when the remote model returns a non-empty text that fails JSON parsing
\* after the markdown fences are stripped, the error is not propagated and the
\* result is the synthesizer's output for the aggregated data.
C2_ParseFailureUsesSynthesizer ==
    (/\ SheetAnswered
     /\ rRemote.kind = "text"
     /\ ~BlankAnswer(rRemote.text)
     /\ ~JsonParses(CleanText(rRemote.text)))
        => /\ rResponse.status = 200
           /\ rAiResult = createComprehensiveAnalysis(rData)

\* C3: when the remote call times out during POST /analyze on a sheet with at
\* least one valid student row, the response has aiPowered false, the analysis
\* type Rule-Based (Fallback), and a non-empty individualInsights.
C3_TimeoutReportsRuleBased ==
    (SheetAnswered /\ rRemote.kind = "timeout" /\ HasScoredStudent(rData)) =>
        /\ rResponse.aiPowered = FALSE
        /\ rResponse.analysisType = "Rule-Based (Fallback)"
        /\ Len(rResponse.individualInsights) > 0

\* C4: generateCourseRecommendations returns exactly 3 recommendations for
\* every student, whatever the subject averages, no subjects included.
C4_ExactlyThreeRecommendations ==
    rPc = "synthesized" =>
        \A i \in 1..Len(rAiResult.individualInsights) :
            Len(rAiResult.individualInsights[i].recommendations) = 3

\* No row of the sheet names a student.
NoStudentRow(rows) == \A i \in 1..Len(rows) : ~Truthy(RowName(rows[i]))

\* C9: analysing a dataset without any valid student ends with an explicit
\* error and never with a success response reporting zero students.
C9_EmptyDatasetIsError ==
    (SheetAnswered /\ NoStudentRow(rFile.rows)) =>
        /\ rResponse.success = FALSE
        /\ rResponse.status # 200


(***************************************************************************)
(* Properties of aggregateStudentData, read on the data analyzeFile hands   *)
(* to analyzeWithAI.                                                       *)
(***************************************************************************)
\* analyzeFile has aggregated the rows of the uploaded sheet.
Aggregated ==
    rPc \in {"awaitingAI", "responded"} /\ rFile.kind = "sheet" /\ HasFile(rFile)

\* The number a term cell holds: the cell itself when it is a number, n when
\* it is the decimal text of n, and -1 when it holds no number.
CellNumber(cell) ==
    IF cell.t = "number" THEN cell.v
    ELSE IF cell.t = "string" /\ \E n \in 0..100 : NatToChars(n) = cell.v
         THEN CHOOSE n \in 0..100 : NatToChars(n) = cell.v
         ELSE -1

\* The term columns of the row that hold a number >= 0.
ValidCols(row) == {i \in 1..Len(termCols) : CellNumber(row[termCols[i]]) >= 0}

RECURSIVE ColSum(_, _)
ColSum(row, cols) ==
    IF cols = {} THEN 0
    ELSE LET i == CHOOSE j \in cols : TRUE
         IN CellNumber(row[termCols[i]]) + ColSum(row, cols \ {i})

\* The mean of the valid term cells of the row, rounded to one decimal, in
\* tenths: the integer nearest to ten times the mean, the larger on a tie.
RoundedMean(row) ==
    LET n == Cardinality(ValidCols(row))
        s == 10 * ColSum(row, ValidCols(row))
    IN CHOOSE m \in 0..1000 : 2 * s - n < 2 * m * n /\ 2 * m * n <= 2 * s + n

\* The rows of the pair (name, subject), and those with a valid score.
PairRows(rows, name, subject) ==
    {i \in 1..Len(rows) :
        /\ Truthy(RowName(rows[i])) /\ JsString(RowName(rows[i])) = name
        /\ Truthy(RowSubject(rows[i])) /\ JsString(RowSubject(rows[i])) = subject}

ScoredRows(rows, name, subject) ==
    {i \in PairRows(rows, name, subject) : ValidCols(rows[i]) # {}}

\* The average stored for the pair, -1 when the pair has no entry.
Stored(data, name, subject) ==
    IF \E i \in 1..Len(data) : \E j \in 1..Len(data[i].subjects) :
            data[i].name = name /\ data[i].subjects[j].subject = subject
    THEN LET i == CHOOSE k \in 1..Len(data) : data[k].name = name
             j == CHOOSE k \in 1..Len(data[i].subjects) :
                        data[i].subjects[k].subject = subject
         IN data[i].subjects[j].score
    ELSE -1

StudentNames == {S1.v, S2.v}

SubjectNames == {Mathematics, Physics, Art, English, Economics}

Max(S) == CHOOSE x \in S : \A y \in S : y <= x

\* C11: the value stored for a (student, subject) pair is the mean, rounded
\* to one decimal, of exactly the term cells of a row of that pair that hold a
\* number >= 0; a pair with no such cell in any of its rows has no entry.
C11_MeanOfValidScores ==
    Aggregated =>
        \A name \in StudentNames, subject \in SubjectNames :
            LET scored == ScoredRows(rFile.rows, name, subject)
            IN IF scored = {} THEN Stored(rData, name, subject) = -1
               ELSE \E i \in scored :
                        Stored(rData, name, subject) = RoundedMean(rFile.rows[i])

\* C11 witness: a sheet was aggregated in which one pair has a row mixing an
\* unparsable cell, a negative cell and a valid cell, and another row has three
\* valid cells whose mean needs rounding.
C11_Witness ==
    /\ Aggregated
    /\ Stored(rData, S2.v, English) = 0
    /\ Stored(rData, S2.v, Physics) = 707

\* C12 as stated: when a pair appears in several rows, the stored value is the
\* average computed from the last of these rows.
C12_Original ==
    Aggregated =>
        \A name \in StudentNames, subject \in SubjectNames :
            LET rows == PairRows(rFile.rows, name, subject)
            IN (Cardinality(rows) >= 2 /\ Stored(rData, name, subject) # -1) =>
                   /\ ValidCols(rFile.rows[Max(rows)]) # {}
                   /\ Stored(rData, name, subject) = RoundedMean(rFile.rows[Max(rows)])

\* C12 amended: when a pair appears in several rows, the stored value is the
\* average computed from the last of these rows that has a valid score.
C12_LastScoredRowWins ==
    Aggregated =>
        \A name \in StudentNames, subject \in SubjectNames :
            LET rows == PairRows(rFile.rows, name, subject)
                scored == ScoredRows(rFile.rows, name, subject)
            IN (Cardinality(rows) >= 2 /\ scored # {}) =>
                   Stored(rData, name, subject) = RoundedMean(rFile.rows[Max(scored)])

\* C12 witness: Mathematics of S1 was given as 80 and 90 in the first row and
\* as 60 in the second, and 60.0 is stored.
C12_Witness ==
    /\ Aggregated
    /\ Len(rFile.rows) = 2
    /\ RoundedMean(rFile.rows[1]) = 850
    /\ PairRows(rFile.rows, S1.v, Mathematics) = {1, 2}
    /\ Stored(rData, S1.v, Mathematics) = 600

\* The expected result for the two rows of S1.
S1TwoSubjects ==
    <<[name |-> S1.v,
       subjects |-> <<[subject |-> Mathematics, score |-> 850],
                      [subject |-> Physics, score |-> 700]>>]>>

\* C13 as stated: the rows name the student in a column called id.
C13_Original ==
    (Aggregated /\ rFile.rows = TwoSubjectRows("id")) => rData = S1TwoSubjects

\* C13 amended: with the student named in the column Student_ID, the rows
\* Mathematics 80, 90 and Physics 75, 65 yield the single student S1 with
\* Mathematics 85.0 and Physics 70.0.
C13_ScenarioA ==
    (Aggregated /\ rFile.rows = TwoSubjectRows("Student_ID")) => rData = S1TwoSubjects

\* C13 witness: the two rows keyed by Student_ID were aggregated.
C13_Witness ==
    /\ Aggregated
    /\ rFile.rows = TwoSubjectRows("Student_ID")
    /\ Len(rData) = 1


(***************************************************************************)
(* Properties of createComprehensiveAnalysis.                              *)
(***************************************************************************)
\* The subject averages of the student are Mathematics 78, Physics 72 and
\* English 60.
HasScenarioD(student) ==
    /\ Len(student.subjects) = 3
    /\ {student.subjects[k] : k \in 1..3}
           = {Entry(Mathematics, 780), Entry(Physics, 720), Entry(English, 600)}

\* C14: for subject averages Mathematics 78, Physics 72, English 60 the
\* strengths are Mathematics then Physics, and exactly 3 courses are
\* recommended, the first being Computer Engineering.
C14_ScenarioD ==
    rPc = "synthesized" =>
        \A i \in 1..Len(rData) :
            HasScenarioD(rData[i]) =>
                /\ rAiResult.individualInsights[i].strengths = <<Mathematics, Physics>>
                /\ Len(rAiResult.individualInsights[i].recommendations) = 3
                /\ rAiResult.individualInsights[i].recommendations[1] = "Computer Engineering"

\* C14 witness: a student with these averages, English listed first, was
\* analysed.
C14_Witness ==
    /\ rPc = "synthesized"
    /\ Len(rData) = 1
    /\ HasScenarioD(rData[1])
    /\ rData[1].subjects[1].subject = English
    /\ Len(rAiResult.individualInsights) = 1


(***************************************************************************)
(* Properties of the upload gate of POST /analyze.                         *)
(***************************************************************************)
\* The extensions the claim names, lower case.
AcceptedSet ==
    {<<".", "c", "s", "v">>, <<".", "x", "l", "s", "x">>, <<".", "x", "l", "s">>,
     <<".", "x", "l", "s", "m">>}

\* The request ran the analysis of the upload.
Analysed == rResponse.status = 200 /\ Len(cache) = 1

\* The error message names the extension.
NamesExtension(error, ext) == \E i \in 1..Len(error) : error[i] = Quoted(ext)

\* C15: an upload is analysed exactly when the extension of its original
\* name is one of .csv, .xlsx, .xls, .xlsm in any letter case; with any other
\* extension the request ends in an error whose message names the extension.
C15_ExtensionGate ==
    (rPc = "responded" /\ rFile.kind = "sheet") =>
        /\ Analysed <=> toLowerCase(rFile.ext) \in AcceptedSet
        /\ ~Analysed =>
              /\ rResponse.success = FALSE
              /\ NamesExtension(rResponse.error, toLowerCase(rFile.ext))


(***************************************************************************)
(* Properties of the analysis cache and the session routes.                *)
(***************************************************************************)
\* The last response answers a lookup of a session by the PDF or chat route.
IsLookup == "route" \in DOMAIN sLast /\ sLast.route \in {"download-pdf", "chat"}

\* POST /analyze has answered with this session identifier.
IsIssued(sessionId) == \E e \in sIssued : e.sessionId = sessionId

\* The analysis POST /analyze cached when it answered with the identifier.
IssuedAnalysis(sessionId) == (CHOOSE e \in sIssued : e.sessionId = sessionId).analysis

\* C16: once POST /analyze has answered with session identifier s, every later
\* PDF download or chat lookup of s finds the entry and reads the analysis of
\* that upload, whatever other requests ran in between, until DELETE
\* /session/s is processed; after the delete the lookup finds nothing.
C16_SessionReadable ==
    (IsLookup /\ IsIssued(sLast.sessionId)) =>
        IF sLast.sessionId \in sDeleted
        THEN ~sLast.found
        ELSE sLast.found /\ sLast.data = IssuedAnalysis(sLast.sessionId)

\* The request has answered 200.
Done(r) == sReqs[r].pc = "done"

\* The analyses the upload of the request can produce.
OwnAnalyses(r) ==
    {[totalStudents |-> CountStudents(sReqs[r].rows),
      totalSubjects |-> CountSubjects(sReqs[r].rows),
      analysisResults |-> analyzeWithAI(aModel, o, aggregateStudentData(sReqs[r].rows))] :
        o \in SessionOutcomes}

\* C17: with POST /analyze requests interleaved at their awaits, the session
\* identifiers of the successful requests are pairwise different, the cache
\* holds one entry per successful request, and the entry under a request's
\* identifier is the analysis of that request's own upload.
C17_IndependentUploads ==
    /\ \A r1, r2 \in 1..MaxRequests :
          (Done(r1) /\ Done(r2) /\ r1 # r2) =>
              sReqs[r1].response.sessionId # sReqs[r2].response.sessionId
    /\ Len(cache) = Cardinality({r \in 1..MaxRequests : Done(r)})
    /\ \A r \in 1..MaxRequests :
          Done(r) =>
              /\ CacheHas(cache, sReqs[r].response.sessionId)
              /\ CacheGet(cache, sReqs[r].response.sessionId).data \in OwnAnalyses(r)
              /\ sReqs[r].response.analysisResults
                     = CacheGet(cache, sReqs[r].response.sessionId).data.analysisResults

\* C17 witness: two requests with different uploads have both answered, the
\* first request having been given the second identifier.
C17_Witness ==
    /\ Done(1)
    /\ Done(2)
    /\ sReqs[1].rows # sReqs[2].rows
    /\ sReqs[1].response.sessionId = 2
    /\ sReqs[2].response.sessionId = 1

(***************************************************************************)
(* Properties of the structure of the synthesized analysis.                *)
(***************************************************************************)
\* What aggregateStudentData builds: every student has a subjects map.
IsAggregated(data) == \A i \in 1..Len(data) : "subjects" \in DOMAIN data[i]

\* The properties of a structurally complete result.
CompleteKeys ==
    {"overallAssessment", "individualInsights", "patterns", "recommendations",
     "insights", "confidence"}

\* C18: for every aggregated input (zero students, students with an empty
\* subject map and sparse subjects included) createComprehensiveAnalysis does
\* not throw and returns overallAssessment, individualInsights with one entry
\* per aggregated student, patterns, recommendations, insights and
\* confidence.
C18_StructurallyComplete ==
    (rPc = "synthesized" /\ IsAggregated(rData)) =>
        /\ "thrown" \notin DOMAIN rAiResult
        /\ CompleteKeys \subseteq DOMAIN rAiResult
        /\ Len(rAiResult.individualInsights) = Len(rData)
        /\ \A i \in 1..Len(rData) :
               rAiResult.individualInsights[i].studentName = rData[i].name

\* C18 witness: a class of two students, the first without any subject and
\* the second with a subject, was synthesized.
C18_Witness ==
    /\ rPc = "synthesized"
    /\ Len(rData) = 2
    /\ rData[1].subjects = <<>>
    /\ rData[2].subjects # <<>>
    /\ Len(rAiResult.individualInsights) = 2
    /\ rAiResult.insights[1].subjects > 0

\* The class average the ladder reads, as a fraction of tenths: the mean of
\* all (student, subject) scores.
ClassScores(data) ==
    UNION {{<<i, k>> : k \in 1..Len(data[i].subjects)} : i \in 1..Len(data)}

RECURSIVE SumOver(_, _)
SumOver(data, pairs) ==
    IF pairs = {} THEN 0
    ELSE LET p == CHOOSE q \in pairs : TRUE
         IN data[p[1]].subjects[p[2]].score + SumOver(data, pairs \ {p})

\* The grade the ladder of the claim gives to the average sum / n.
LadderGrade(sum, n) ==
    CHOOSE g \in {"A", "B", "C", "D", "F"} :
        /\ g = "A" <=> sum >= 800 * n
        /\ g = "B" <=> (sum < 800 * n /\ sum >= 700 * n)
        /\ g = "C" <=> (sum < 700 * n /\ sum >= 600 * n)
        /\ g = "D" <=> (sum < 600 * n /\ sum >= 500 * n)
        /\ g = "F" <=> sum < 500 * n

\* C19: in the fallback result classGrade follows the class average over all
\* (student, subject) scores: at least 80 is A, else at least 70 is B, else
\* at least 60 is C, else at least 50 is D, else F.
C19_ClassGradeLadder ==
    (rPc = "synthesized" /\ ClassScores(rData) # {}) =>
        rAiResult.overallAssessment.classGrade
            = LadderGrade(SumOver(rData, ClassScores(rData)), Cardinality(ClassScores(rData)))

\* C19 witness: a class whose average is exactly 70 was graded B.
C19_Witness ==
    /\ rPc = "synthesized"
    /\ ClassScores(rData) # {}
    /\ SumOver(rData, ClassScores(rData)) = 700 * Cardinality(ClassScores(rData))
    /\ rAiResult.overallAssessment.classGrade = "B"

(***************************************************************************)
(* Properties of identifyOutliers.                                         *)
(***************************************************************************)
\* The valid numbers of a field, in the order of the students.
FieldNumbers(data, field) ==
    LET valid == SelectSeq(data, LAMBDA student : student[field].t = "number")
    IN [i \in 1..Len(valid) |-> valid[i][field].v]

\* The fields identifyOutliers is called with.
FieldSet == {numericFields[k] : k \in 1..Len(numericFields)}

\* C20: identifyOutliers has an entry for a field exactly when the field has
\* more than 4 valid values, so none for a dataset of one student; an entry
\* lists the valid values outside the fences, and each is tagged low when it
\* is below the lower fence and high when it is above the upper fence.
C20_OutlierFences ==
    ePc = "outliersDone" =>
        \A field \in FieldSet :
            LET nums == FieldNumbers(eData, field)
            IN /\ field \in DOMAIN eOutliers <=> Len(nums) > 4
               /\ Len(eData) = 1 => field \notin DOMAIN eOutliers
               /\ field \in DOMAIN eOutliers =>
                    /\ [i \in 1..Len(eOutliers[field]) |-> eOutliers[field][i].value.v]
                         = SelectSeq(nums, LAMBDA n :
                               4 * n < lowerBound4(nums) \/ 4 * n > upperBound4(nums))
                    /\ \A i \in 1..Len(eOutliers[field]) :
                         LET o == eOutliers[field][i]
                         IN /\ o.type = "low" <=> 4 * o.value.v < lowerBound4(nums)
                            /\ o.type = "high" <=> 4 * o.value.v > upperBound4(nums)

\* C20 witness: five graded students, one far below and one far above the
\* others, gave a low and a high outlier.
C20_Witness ==
    /\ ePc = "outliersDone"
    /\ "grade" \in DOMAIN eOutliers
    /\ \E i, j \in 1..Len(eOutliers["grade"]) :
           /\ eOutliers["grade"][i].type = "low"
           /\ eOutliers["grade"][j].type = "high"

(***************************************************************************)
(* Properties of the authentication of POST /analyze.                      *)
(***************************************************************************)
\* C21: POST /api/analysis/analyze sent without an Authorization token is
\* answered with status 401, and no analysis is run or cached.
C21_AnalyzeRequiresToken ==
    TokenOf(rAuth) = Undef =>
        /\ rPc \in {"received", "responded"}
        /\ cache = <<>>
        /\ rPc = "responded" => rResponse.status = 401

(***************************************************************************)
(* Properties of POST /login.                                              *)
(***************************************************************************)
\* The last request answered is a login.
LoginAnswered == uLast # Null /\ uLast.route = "login"

\* The login succeeded: 200 with a token and the submitted email.
LoginAccepted ==
    /\ uLast.response.status = 200
    /\ "token" \in DOMAIN uLast.response
    /\ uLast.response.user.email = uLast.body.email

\* The login was refused: 401 with an error and without a token.
LoginRefused ==
    /\ uLast.response.status = 401
    /\ "error" \in DOMAIN uLast.response
    /\ "token" \notin DOMAIN uLast.response

\* The submitted email belonged to a stored user when the request looked it
\* up, and the submitted password is that user's password.
CredentialsMatch ==
    /\ uLast.read # Undef
    /\ uLast.read.email = uLast.body.email
    /\ uLast.read.password.bcrypt = uLast.body.password

\* C22 as stated: every login is answered 200 with a token and the submitted
\* email when the credentials match a stored user, and 401 with an error and
\* no token otherwise.
C22_Original ==
    LoginAnswered =>
        IF CredentialsMatch THEN LoginAccepted ELSE LoginRefused

\* Both properties of the login body are present and not empty.
LoginComplete == Truthy(uLast.body.email) /\ Truthy(uLast.body.password)

\* C22 amended: a login whose email and password are both present and not
\* empty is answered 200 with a token and the submitted email exactly when the
\* email belonged to a stored user and the password is that user's; otherwise
\* it is answered 401 with an error and no token.  A login with a missing or
\* empty email or password is answered 400 with an error and no token.
C22_LoginByCredentials ==
    LoginAnswered =>
        IF ~LoginComplete
        THEN /\ uLast.response.status = 400
             /\ "error" \in DOMAIN uLast.response
             /\ "token" \notin DOMAIN uLast.response
        ELSE IF CredentialsMatch THEN LoginAccepted ELSE LoginRefused

\* C22 witness: after a registration a login with the registered credentials
\* was accepted.
C22_Witness ==
    /\ LoginAnswered
    /\ LoginComplete
    /\ CredentialsMatch
    /\ LoginAccepted
    /\ uLast.body.email \in DOMAIN users

(***************************************************************************)
(* Properties of the confidence of an analysis.                            *)
(***************************************************************************)
\* The path analyzeWithAI took for the remote outcome.
ResultPath(remote) ==
    IF RemoteGaveNothing(remote) THEN "fallback"
    ELSE IF ~JsonParses(CleanText(remote.text)) THEN "unparseable"
    ELSE IF JsonValue(CleanText(remote.text)) = Null THEN "unparseable"
    ELSE IF JsonValue(CleanText(remote.text)).t = "array" THEN "array"
    ELSE "object"

\* C23: on every path (array answer, object answer, unparseable text,
\* fallback synthesizer) the result of analyzeWithAI carries a confidence
\* that is a number from 0 to 1; the model counts it in tenths.
C23_ConfidenceInRange ==
    SheetAnswered =>
        /\ "confidence" \in DOMAIN rAiResult
        /\ rAiResult.confidence \in 0..10
        /\ rResponse.confidence = rAiResult.confidence

\* C23 witness: an object answer that states a confidence of 95 was validated
\* and got the confidence 1.0 of calculateConfidence.
C23_Witness ==
    /\ SheetAnswered
    /\ ResultPath(rRemote) = "object"
    /\ JsonValue(CleanText(rRemote.text)).confidence = Num(95)
    /\ rAiResult.confidence = 10

RaceDecided == SheetAnswered /\ aModel

\* C25: a call of analyzeWithAI with a configured model completes with exactly
\* one result.  When the remote request settles before the timer, the result
\* is the one the code derives from that settlement; when the timer fires
\* first it is the fallback analysis; and what the loser of the race does
\* afterwards changes neither the result returned nor the response, and
\* raises no error.
C25_OneResultPerCall ==
    RaceDecided =>
        /\ rRemote.kind = "timeout" => rAiResult = createComprehensiveAnalysis(rData)
        /\ rRemote.kind = "throws" => rAiResult = createComprehensiveAnalysis(rData)
        /\ (rRemote.kind = "text" /\ ~BlankAnswer(rRemote.text))
              => rAiResult = parseAnalysisResponse(rRemote.text)
        /\ (rRemote.kind = "text" /\ BlankAnswer(rRemote.text))
              => rAiResult = createComprehensiveAnalysis(rData)
        /\ rResponse.status = 200
        /\ rResponse.analysisResults = rAiResult
        /\ Len(cache) = 1
        /\ cache[1].data.analysisResults = rAiResult

\* C25 witness: the timer fired first, the fallback analysis was returned,
\* and the remote answer arrived afterwards.
C25_Witness ==
    /\ RaceDecided
    /\ rRemote.kind = "timeout"
    /\ rLate.kind = "text"
    /\ rLate.text = <<Json(JsArray(<<AnswerStudent>>))>>
    /\ rAiResult = createComprehensiveAnalysis(rData)
    /\ Len(rAiResult.individualInsights) > 0

(***************************************************************************)
(* Properties of the strengths of a student.                               *)
(***************************************************************************)
\* The position of the subject among the student's subjects, 0 when the
\* student does not have it.
PositionOf(student, subject) ==
    IF \E k \in 1..Len(student.subjects) : student.subjects[k].subject = subject
    THEN CHOOSE k \in 1..Len(student.subjects) : student.subjects[k].subject = subject
    ELSE 0

\* The strengths of one student obey the claim.
StrengthsInOrder(student, strengths) ==
    LET pos(k) == PositionOf(student, strengths[k])
        score(k) == student.subjects[pos(k)].score
        included == {pos(k) : k \in 1..Len(strengths)}
    IN /\ Len(strengths) <= 3
       /\ \A k \in 1..Len(strengths) : pos(k) > 0 /\ score(k) >= 700
       /\ \A k, l \in 1..Len(strengths) :
              k < l => \/ score(k) > score(l)
                       \/ score(k) = score(l) /\ pos(k) < pos(l)
       /\ \A o \in (1..Len(student.subjects)) \ included :
              \A k \in 1..Len(strengths) : ~(student.subjects[o].score > score(k))

\* C26: for every student the strengths of the fallback analysis are at most
\* 3, name only subjects whose average is at least 70, are ordered by
\* descending average with ties in the original subject order, and no omitted
\* subject has a strictly higher average than an included one.
C26_StrengthsTopThree ==
    rPc = "synthesized" =>
        \A i \in 1..Len(rData) :
            StrengthsInOrder(rData[i], rAiResult.individualInsights[i].strengths)

\* C26 witness: a student with four subjects at 90 got the first three of
\* them, in their original order, as strengths.
C26_Witness ==
    /\ rPc = "synthesized"
    /\ \E i \in 1..Len(rData) :
          /\ Len(rData[i].subjects) = 4
          /\ \A k \in 1..4 : rData[i].subjects[k].score = 900
          /\ rAiResult.individualInsights[i].strengths
                = [k \in 1..3 |-> rData[i].subjects[k].subject]

(***************************************************************************)
(* Properties of the truncation of the course recommendations.             *)
(***************************************************************************)
\* The rule-evaluation order the claim gives.
RuleOrder ==
    <<"Computer Engineering", "Medicine and Surgery", "Mathematics/Statistics",
      "Economics", "Law", "Mass Communication", "Business Administration">>

\* The courses whose rule matches for the student, in the order the rules
\* push them.
MatchedCourses(student) == RuleMatches(Strengths(student.subjects), student.subjects)

\* C27: when more than 3 rules of the course rule table match for a student,
\* the recommendations are the first 3 matches in the order Computer
\* Engineering, Medicine and Surgery, Mathematics/Statistics, Economics, Law,
\* Mass Communication, Business Administration, and no filler (Accounting,
\* Public Administration) is among them.
C27_FirstThreeMatches ==
    rPc = "synthesized" =>
        \A i \in 1..Len(rData) :
            LET pushed == MatchedCourses(rData[i])
                matched == {pushed[k] : k \in 1..Len(pushed)}
                recs == rAiResult.individualInsights[i].recommendations
                inOrder == SelectSeq(RuleOrder, LAMBDA c : c \in matched)
            IN Cardinality(matched) > 3 =>
                   /\ recs = SubSeq(inOrder, 1, 3)
                   /\ \A k \in 1..Len(recs) :
                          recs[k] \notin {"Accounting", "Public Administration"}

\* C27 witness: five rules matched for a student with Economics, English,
\* Mathematics and Physics at 90, who got Computer Engineering,
\* Mathematics/Statistics and Economics.
C27_Witness ==
    /\ rPc = "synthesized"
    /\ \E i \in 1..Len(rData) :
          /\ Len(MatchedCourses(rData[i])) = 5
          /\ rAiResult.individualInsights[i].recommendations
                = <<"Computer Engineering", "Mathematics/Statistics", "Economics">>

(***************************************************************************)
(* Properties of the conversation history.                                 *)
(***************************************************************************)
\* The user's answered messages in the order they completed.
AnsweredOf(userId) == SelectSeq(cDone, LAMBDA message : cCalls[message].userId = userId)

\* The last 10 elements of the sequence.
LastTen(s) == SubSeq(s, IF Len(s) > 10 THEN Len(s) - 9 ELSE 1, Len(s))

\* The history kept for the user: none is an empty one.
HistoryOf(userId) == IF userId \in DOMAIN hist THEN hist[userId] ELSE <<>>

\* C28: after any calls of processMessage the history of each user holds at
\* most 10 exchanges, that user's most recent answered exchanges in the order
\* they completed.  Hence a call whose model request fails leaves every
\* history as it was, and no exchange of one user is in the history of
\* another.
C28_HistoryLastTen ==
    \A userId \in {DefaultUser, OtherUser} :
        /\ Len(HistoryOf(userId)) <= 10
        /\ [k \in 1..Len(HistoryOf(userId)) |-> HistoryOf(userId)[k].message]
               = LastTen(AnsweredOf(userId))
        /\ \A k \in 1..Len(HistoryOf(userId)) :
               /\ cCalls[HistoryOf(userId)[k].message].userId = userId
               /\ cCalls[HistoryOf(userId)[k].message].outcome = "answered"
               /\ HistoryOf(userId)[k].response = Reply(HistoryOf(userId)[k].message)

\* C28 witness: the default user had 11 exchanges answered and keeps the last
\* 10, a call failed, and the other user has an exchange of their own.
C28_Witness ==
    /\ Len(AnsweredOf(DefaultUser)) = 11
    /\ Len(HistoryOf(DefaultUser)) = 10
    /\ HistoryOf(DefaultUser)[1].message = AnsweredOf(DefaultUser)[2]
    /\ \E k \in 1..Len(cCalls) : cCalls[k].outcome = "failed"
    /\ Len(HistoryOf(OtherUser)) = 1

(***************************************************************************)
(* Properties of the route's cleanup.                                      *)
(***************************************************************************)
\* The analyzer threw: of the uploads of the model, the file that cannot be
\* read.
AnalysisFailed == HasFile(rFile) /\ rFile.kind = "unreadable"

\* C29: a POST /analyze request whose analysis fails adds no entry to the
\* analysis cache (empty before the request) and answers 500; and on the
\* success path and on the failure path alike the uploaded temporary file is
\* gone once the response has been sent.
C29_FailureLeavesNoTrace ==
    rPc = "responded" =>
        /\ AnalysisFailed => (rResponse.status = 500 /\ cache = <<>>)
        /\ rResponse.status = 500 => cache = <<>>
        /\ rResponse.status = 200 => Len(cache) = 1
        /\ HasFile(rFile) => (rResponse.status \in {200, 500} /\ ~tempFile)

\* C29 witness: an upload that was stored and could not be read was answered
\* with 500.
C29_Witness ==
    /\ rPc = "responded"
    /\ AnalysisFailed
    /\ rResponse.status = 500
    /\ cache = <<>>
    /\ ~tempFile

(***************************************************************************)
(* Properties of the student counts of an analysis.                        *)
(***************************************************************************)
\* The upload was analysed by the synthesizer: no model, or a remote call
\* that gave nothing.
FallbackAnswered == SheetAnswered /\ ResultPath(rRemote) = "fallback"

\* C30: for every row set analysed through the fallback path, totalStudents
\* of analyzeFile equals the number of individualInsights and equals
\* overallAssessment.totalStudents, rows with an identifier but no subject or
\* no valid score included.
C30_StudentCountsAgree ==
    FallbackAnswered =>
        /\ rResponse.totalStudents = Len(rResponse.individualInsights)
        /\ rResponse.totalStudents = rResponse.overallAssessment.totalStudents

====
